---- MODULE Spec2Model ----
(***************************************************************************)
(* State-machine model of the XENIFACE request handlers:                   *)
(*   - the grant-table handlers of src/src/xeniface/ioctl_gnttab.c         *)
(*     (PermitForeignAccess / GetGrantResult / RevokeForeignAccess,        *)
(*      MapForeignPages / GetMapResult / UnmapForeignPages,                *)
(*      CompleteGnttabIrp) over the cancel-safe IRP queue,                 *)
(*   - the event-channel and store-watch handlers and XenIfaceCleanup of   *)
(*     src/src/xeniface/ioctls.c.                                          *)
(* The cancel-safe queue callbacks (irp_queue.c) are not part of the       *)
(* sources at hand; they are modelled from the contract of section 4.1.    *)
(***************************************************************************)
EXTENDS Integers, Sequences, FiniteSets, TLC

\* ------------------------------------------------------------------ bounds
MaxIrps == 2          \* asynchronous grant/map requests (IRPs) in one run
MaxPages == 2         \* largest valid NumberPages the requests ask for
MaxChans == 2         \* event-channel contexts in one run
MaxWatches == 3       \* store-watch contexts in one run
MaxCpus == 2          \* processors
MaxCleanups == 2      \* XenIfaceCleanup calls per file object
MaxCheckedPages == 524287   \* 2^19 - 1: the largest page count whose byte length is below 2^31

\* ------------------------------------------------------- program constants
MaxNumberPages == 1048576     \* 1024 * 1024
PAGE_SIZE == 4096
XENIFACE_GNTTAB_READONLY == 1
XENIFACE_GNTTAB_USE_NOTIFY_OFFSET == 2
XENIFACE_GNTTAB_USE_NOTIFY_PORT == 4

Irps == 1..MaxIrps
Procs == {"P1", "P2"}              \* client processes (PsGetCurrentProcess)
SystemProcess == "System"          \* process of the system worker threads
RequestIds == {1, 2}
XENIFACE_CONTEXT_GRANT == "Grant"
XENIFACE_CONTEXT_MAP == "Map"
Types == {XENIFACE_CONTEXT_GRANT, XENIFACE_CONTEXT_MAP}

\* Flags is a bit mask; HasFlag tests one bit.
HasFlag(flags, bit) == (flags \div bit) % 2 = 1

\* NumberPages * PAGE_SIZE in ULONG arithmetic, i.e. modulo 2^32.  PAGE_SIZE is
\* 2^12, so the product keeps the low 20 bits of NumberPages:
\* (n * 2^12) mod 2^32 = (n mod 2^20) * 2^12.
PagesToBytes32(NumberPages) == (NumberPages % 1048576) * PAGE_SIZE

\* sizeof() of the fixed-size request blocks (xeniface_ioctls.h)
SizeofPermitIn == 24
SizeofMapIn == 28
SizeofGetGrantResultIn == 4
SizeofGetGrantResultOut == 16
SizeofRevokeIn == 4
SizeofGetMapResultIn == 4
SizeofGetMapResultOut == 8
SizeofUnmapIn == 4
SizeofUlong == 4
SizeofAddWatchOut == 8
SizeofBindUnboundOut == 4

VARIABLES
    irps,       \* [Irps -> request record]: the IRP and the context built for it
    IrpQueue,   \* Fdo->IrpQueue: sequence of parked IRPs, oldest first
    ret,        \* what the last synchronous handler returned
    chans,      \* [Chans -> event-channel context record]
    EvtchnList, \* Fdo->EvtchnList: sequence of channel contexts, head first
    cpus,       \* [Cpus -> processor record]: Fdo->EvtchnDpc[cpu], the ISR and DPC on it
    watches,    \* [Watches -> store-watch context record]
    StoreWatchList, \* Fdo->StoreWatchList: sequence of watch contexts, head first
    cleanup,    \* [FileObjects -> progress of XenIfaceCleanup, its ToFree list]
    InterfacesAcquired, \* Fdo->InterfacesAcquired
    threads     \* [Threads -> the handler a thread runs, its place in it, the locks it holds]

vars == <<irps, IrpQueue, ret, chans, EvtchnList, cpus, watches, StoreWatchList, cleanup,
          InterfacesAcquired, threads>>

\* The threads whose lock discipline is followed, and a thread that runs no
\* handler.
MaxThreads == 3
Threads == 1..MaxThreads
IdleThread == [handler |-> "idle", pc |-> 0, held |-> {}]

\* The state of the grant-table handlers, and the state of the event-channel
\* and store-watch handlers.
gnttabVars == <<irps, IrpQueue>>
evtchnVars == <<chans, EvtchnList, cpus, watches, StoreWatchList, cleanup>>

\* A gate that is always open: the faulty variant the device-not-ready
\* property must tell from NotReady.
NeverNotReady == FALSE

\* XenIfaceIoctl, lines 1813-1815: no request is decoded while the interfaces
\* of the bus have not been acquired.
NotReady == InterfacesAcquired = FALSE

\* ------------------------------------------------------------ event log
\* Every side effect a request has on the allocator, the memory manager and
\* the bus is appended to the request's log as <<operation, argument>>.
Ev(op, arg) == <<op, arg>>

RECURSIVE Count(_, _)
Count(log, e) ==
    IF log = <<>> THEN 0
    ELSE (IF log[1][1] = e[1] /\ log[1][2] = e[2] THEN 1 ELSE 0) + Count(Tail(log), e)

\* Allocations (or mappings) of resource r that are still live.
Live(log, r) == Count(log, Ev("Alloc", r)) - Count(log, Ev("Free", r))


\* ---------------------------------------------------- request records
STATUS_SUCCESS == "STATUS_SUCCESS"
STATUS_PENDING == "STATUS_PENDING"
STATUS_CANCELLED == "STATUS_CANCELLED"
STATUS_NOT_FOUND == "STATUS_NOT_FOUND"
STATUS_NO_MEMORY == "STATUS_NO_MEMORY"
STATUS_UNSUCCESSFUL == "STATUS_UNSUCCESSFUL"
STATUS_INVALID_PARAMETER == "STATUS_INVALID_PARAMETER"
STATUS_INVALID_BUFFER_SIZE == "STATUS_INVALID_BUFFER_SIZE"
STATUS_BUS_ERROR == "STATUS_BUS_ERROR"            \* whatever error the bus reports
STATUS_ACCESS_VIOLATION == "STATUS_ACCESS_VIOLATION" \* GetExceptionCode() of a failed mapping

\* An IRP that has not been sent yet.
IdleIrp ==
    [pc |-> "idle", tail |-> FALSE,
     Process |-> "none", RequestId |-> 0, Type |-> "none",
     NumberPages |-> 0, Flags |-> 0, NotifyOffset |-> 0, NotifyPort |-> 0,
     log |-> <<>>, Status |-> "none", Information |-> 0, completions |-> <<>>,
     by |-> "none", lateWrite |-> FALSE,
     current |-> "none"]   \* PsGetCurrentProcess() of the thread that tears the context down

\* XENIFACE_CONTEXT_ID of a request record.
IdOf(rec) == [Process |-> rec.Process, RequestId |-> rec.RequestId, Type |-> rec.Type]

MkId(p, r, t) == [Process |-> p, RequestId |-> r, Type |-> t]

\* Context->UserVa of the context built for IRP i (NULL is 0).
UserVa(i) == i

\* XENBUS_GNTTAB(GetReference) of Context->Grants[Page] of IRP i.
GetReference(i, Page) == i * MaxNumberPages + Page

\* ---------------------------------------- cancel-safe queue (irp_queue.c)
\* CsqPeekNextIrp(Queue, NULL, Id): the first parked IRP whose context id equals
\* Id in process, request id and type; 0 (NULL) if there is none.
RECURSIVE PeekFrom(_, _, _)
PeekFrom(q, all, Id) ==
    IF q = <<>> THEN 0
    ELSE IF IdOf(all[q[1]]) = Id THEN q[1]
    ELSE PeekFrom(Tail(q), all, Id)

CsqPeekNextIrp(Id) == PeekFrom(IrpQueue, irps, Id)

\* CsqRemoveIrp: unlink one IRP from the queue.
RECURSIVE CsqRemoveIrp(_, _)
CsqRemoveIrp(q, i) ==
    IF q = <<>> THEN <<>>
    ELSE IF q[1] = i THEN Tail(q)
    ELSE <<q[1]>> \o CsqRemoveIrp(Tail(q), i)

\* CsqInsertIrpEx: the status of the insertion; an IRP whose id is already
\* parked is refused as a duplicate.
CsqInsertIrpEx(Id) ==
    IF CsqPeekNextIrp(Id) # 0 THEN STATUS_INVALID_PARAMETER ELSE STATUS_SUCCESS

InQueue(i) == \E k \in 1..Len(IrpQueue) : IrpQueue[k] = i

\* A check of the request id that never finds it: the faulty variant the
\* duplicate-id properties must tell from FindGnttabIrp.
FindsNoIrp(Id) == 0

\* FindGnttabIrp: the peek under the queue lock.
FindGnttabIrp(Id) == CsqPeekNextIrp(Id)

\* XenIfaceIoctl, done: for a handler that did not return STATUS_PENDING:
\* store the status and complete the request.
CompleteWith(rec, status, info, log) ==
    [rec EXCEPT !.pc = "done", !.log = log,
                !.Status = status, !.Information = info,
                !.completions = Append(@, status)]


\* ------------------------------------------------- event-channel contexts
FileObjects == {"F1", "F2"}        \* one file object per client handle
NoFileObject == "NULL"

Chans == 1..MaxChans
Cpus == 1..MaxCpus
Watches == 1..MaxWatches

\* A context slot that IoctlEvtchnBind* has not allocated yet.
NoChan ==
    [mem |-> "none",          \* none | alloc | freed (ExFreePoolWithTag)
     FileObject |-> NoFileObject, LocalPort |-> 0, Active |-> 0,
     by |-> NoFileObject,     \* the file object the context was allocated for
     bus |-> "none",          \* Context->Channel: none | open | closed
     masked |-> TRUE,         \* the bus holds the channel's events back
     eventRef |-> 0,          \* references held on Context->Event
     bindpc |-> "none",       \* none | inserted | done
     freepc |-> "none",       \* none | queued | detached | inactive | closed | freed
     owner |-> "none",        \* who runs EvtchnFree: close | cleanup
     flushWait |-> {},        \* processors KeFlushQueuedDpcs still waits for
     closes |-> 0,            \* XENBUS_EVTCHN(Close) calls on the channel
     signalled |-> FALSE,     \* KeSetEvent was called on Context->Event
     dpcReadFreed |-> FALSE,  \* a DPC read the context after ExFreePoolWithTag
     setAfterFree |-> FALSE,  \* a DPC set the event after EvtchnFree released it
     wroteFreed |-> FALSE,    \* a handler wrote the context after ExFreePoolWithTag
     opsAfterClose |-> FALSE] \* XENBUS_EVTCHN(Unmask) or (Send) after (Close)

\* XENBUS_EVTCHN(GetPort) of the channel opened for context slot c.
GetPort(c) == c

\* EvtchnFindChannel: first context of the list with the local port and, unless
\* FileObject is NULL, the file object; 0 (NULL) if there is none.
RECURSIVE FindFrom(_, _, _, _)
FindFrom(list, all, LocalPort, FileObject) ==
    IF list = <<>> THEN 0
    ELSE IF all[list[1]].LocalPort # LocalPort
         THEN FindFrom(Tail(list), all, LocalPort, FileObject)
    ELSE IF FileObject # NoFileObject /\ all[list[1]].FileObject # FileObject
         THEN FindFrom(Tail(list), all, LocalPort, FileObject)
    ELSE list[1]

\* A lookup by local port alone, for every caller: the faulty variant the
\* ownership properties must tell from EvtchnFindChannel.
EvtchnFindChannelOfAnyClient(LocalPort, FileObject) ==
    FindFrom(EvtchnList, chans, LocalPort, NoFileObject)

EvtchnFindChannel(LocalPort, FileObject) ==
    FindFrom(EvtchnList, chans, LocalPort, FileObject)

\* EvtchnNotify: the context that EvtchnFindChannel returns and the status;
\* XENBUS_EVTCHN(Send) is called on that context's channel when it is not NULL.
EvtchnNotify(LocalPort, FileObject) ==
    LET Context == EvtchnFindChannel(LocalPort, FileObject) IN
    [Context |-> Context,
     status |-> IF Context = 0 THEN STATUS_NOT_FOUND ELSE STATUS_SUCCESS]

\* ------------------------------------------------ IoctlGnttabPermitForeignAccess
\* The sharing loop: pages Page .. NumberPages-1, the bus refusing page failAt.
RECURSIVE PermitLoop(_, _, _, _)
PermitLoop(log, Page, NumberPages, failAt) ==
    IF Page = NumberPages THEN [log |-> log, Page |-> Page, ok |-> TRUE]
    ELSE IF Page = failAt THEN [log |-> log, Page |-> Page, ok |-> FALSE]
    ELSE PermitLoop(Append(log, Ev("Permit", Page)), Page + 1, NumberPages, failAt)

\* An unwind loop that stops at page 1 (while (Page > 1)): the faulty variant
\* the exactly-once properties must tell from RevokeDown.
RevokeDownKeepsFirst(log, Page) ==
    log \o [k \in 1..(Page - 1) |-> Ev("Revoke", Page - k)]

\* An unwind loop that starts at the page the bus refused (Grants[Page], which
\* was never shared): the faulty variant the unwinding properties must tell
\* from RevokeDown.
RevokeDownFromRefusedPage(log, Page) ==
    log \o [k \in 1..(Page + 1) |-> Ev("Revoke", Page + 1 - k)]

\* fail8: while (Page > 0) { RevokeForeignAccess(Grants[Page - 1]); --Page; }
RECURSIVE RevokeDown(_, _)
RevokeDown(log, Page) ==
    IF Page = 0 THEN log
    ELSE RevokeDown(Append(log, Ev("Revoke", Page - 1)), Page - 1)

\* The fail labels fall through to the end of the handler.
PermitFail4(log) == Append(log, Ev("Free", "Context"))
PermitFail6(log) == PermitFail4(Append(log, Ev("Free", "Grants")))
PermitFail7(log) == PermitFail6(Append(log, Ev("Free", "KernelVa")))
PermitFail8(log, Page) == PermitFail7(Append(RevokeDown(log, Page), Ev("Free", "Mdl")))
\* An unwind of the duplicate id that goes from fail11 past the revoke loop of
\* fail8: the faulty variant the duplicate-id properties must tell from
\* PermitFail11.
PermitFail11SkipsRevoke(log, Page, process) ==
    PermitFail7(log \o <<Ev("UnmapIn", process), Ev("Free", "UserVa"), Ev("Free", "Mdl")>>)

PermitFail11(log, Page, process) ==
    PermitFail8(log \o <<Ev("UnmapIn", process), Ev("Free", "UserVa")>>, Page)

\* What can go wrong while the context is constructed.
PermitFailures(NumberPages) ==
    {<<"none", 0>>, <<"Grants", 0>>, <<"KernelVa", 0>>, <<"Mdl", 0>>,
     <<"MapException", 0>>, <<"MapNull", 0>>}
        \cup {<<"Page", k>> : k \in 0..(NumberPages - 1)}

\* A validation that compares the offset with twice the byte length, so that
\* an offset in the page after the buffer passes: the faulty variant the
\* offset invariant must tell from PermitForeignAccess_Validate.
PermitForeignAccess_ValidateOffsetDoubled(i, p, In, okContext) ==
    /\ ~NotReady
    /\ irps[i].pc = "idle"
    /\ \A j \in Irps : j < i => irps[j].pc # "idle"
    /\ LET rec == [irps[i] EXCEPT !.Process = p, !.RequestId = In.RequestId,
                                  !.Type = XENIFACE_CONTEXT_GRANT,
                                  !.NumberPages = In.NumberPages, !.Flags = In.Flags,
                                  !.NotifyOffset = In.NotifyOffset,
                                  !.NotifyPort = In.NotifyPort]
           log4 == <<Ev("Alloc", "Context")>>
       IN irps' = [irps EXCEPT ![i] =
            IF In.InLen # SizeofPermitIn \/ In.OutLen # 0
            THEN CompleteWith(rec, STATUS_INVALID_BUFFER_SIZE, 0, <<>>)
            ELSE IF In.NumberPages = 0 \/ In.NumberPages > MaxNumberPages
            THEN CompleteWith(rec, STATUS_INVALID_PARAMETER, 0, <<>>)
            ELSE IF HasFlag(In.Flags, XENIFACE_GNTTAB_USE_NOTIFY_OFFSET)
                    /\ In.NotifyOffset >= 2 * PagesToBytes32(In.NumberPages)
            THEN CompleteWith(rec, STATUS_INVALID_PARAMETER, 0, <<>>)
            ELSE IF ~okContext
            THEN CompleteWith(rec, STATUS_NO_MEMORY, 0, <<>>)
            ELSE IF FindGnttabIrp(IdOf(rec)) # 0
            THEN CompleteWith(rec, STATUS_INVALID_PARAMETER, 0, PermitFail4(log4))
            ELSE [rec EXCEPT !.pc = "checked", !.log = log4]]
    /\ UNCHANGED <<IrpQueue, ret, evtchnVars, InterfacesAcquired, threads>>

\* Lines 154-196: size and parameter validation, the context, the first check
\* of the request id.
PermitForeignAccess_Validate(i, p, In, okContext) ==
    /\ ~NotReady
    /\ irps[i].pc = "idle"
    /\ \A j \in Irps : j < i => irps[j].pc # "idle"
    /\ LET rec == [irps[i] EXCEPT !.Process = p, !.RequestId = In.RequestId,
                                  !.Type = XENIFACE_CONTEXT_GRANT,
                                  !.NumberPages = In.NumberPages, !.Flags = In.Flags,
                                  !.NotifyOffset = In.NotifyOffset,
                                  !.NotifyPort = In.NotifyPort]
           log4 == <<Ev("Alloc", "Context")>>
       IN irps' = [irps EXCEPT ![i] =
            IF In.InLen # SizeofPermitIn \/ In.OutLen # 0
            THEN CompleteWith(rec, STATUS_INVALID_BUFFER_SIZE, 0, <<>>)
            ELSE IF In.NumberPages = 0 \/ In.NumberPages > MaxNumberPages
            THEN CompleteWith(rec, STATUS_INVALID_PARAMETER, 0, <<>>)
            ELSE IF HasFlag(In.Flags, XENIFACE_GNTTAB_USE_NOTIFY_OFFSET)
                    /\ In.NotifyOffset >= PagesToBytes32(In.NumberPages)
            THEN CompleteWith(rec, STATUS_INVALID_PARAMETER, 0, <<>>)
            ELSE IF ~okContext
            THEN CompleteWith(rec, STATUS_NO_MEMORY, 0, <<>>)
            ELSE IF FindGnttabIrp(IdOf(rec)) # 0
            THEN CompleteWith(rec, STATUS_INVALID_PARAMETER, 0, PermitFail4(log4))
            ELSE [rec EXCEPT !.pc = "checked", !.log = log4]]
    /\ UNCHANGED <<IrpQueue, ret, evtchnVars, InterfacesAcquired, threads>>

\* A construction that leaves the handler ready to park the context although
\* the user mapping was never made: the faulty variant the queue invariant must
\* tell from PermitConstruct.
PermitConstructWithoutUserVa(rec, f) ==
    [rec EXCEPT !.pc = "built",
                !.log = PermitLoop(rec.log \o <<Ev("Alloc", "Grants"), Ev("Alloc", "KernelVa"),
                                                Ev("Alloc", "Mdl")>>,
                                   0, rec.NumberPages, rec.NumberPages).log]

\* Lines 198-257: the grant array, the buffer, its MDL, the sharing loop and
\* the user mapping; f is the step that fails, if any.
PermitConstruct(rec, f) ==
    LET n == rec.NumberPages
        log5 == Append(rec.log, Ev("Alloc", "Grants"))
        log6 == Append(log5, Ev("Alloc", "KernelVa"))
        log7 == Append(log6, Ev("Alloc", "Mdl"))
        loop == PermitLoop(log7, 0, n, IF f[1] = "Page" THEN f[2] ELSE n)
        logU == loop.log \o <<Ev("MapIn", rec.Process), Ev("Alloc", "UserVa")>>
    IN IF f[1] = "Grants"
       THEN CompleteWith(rec, STATUS_NO_MEMORY, 0, PermitFail4(rec.log))
       ELSE IF f[1] = "KernelVa"
       THEN CompleteWith(rec, STATUS_NO_MEMORY, 0, PermitFail6(log5))
       ELSE IF f[1] = "Mdl"
       THEN CompleteWith(rec, STATUS_NO_MEMORY, 0, PermitFail7(log6))
       ELSE IF ~loop.ok
       THEN CompleteWith(rec, STATUS_BUS_ERROR, 0, PermitFail8(loop.log, loop.Page))
       ELSE IF f[1] = "MapException"
       THEN CompleteWith(rec, STATUS_ACCESS_VIOLATION, 0, PermitFail8(loop.log, loop.Page))
       ELSE IF f[1] = "MapNull"
       THEN CompleteWith(rec, STATUS_UNSUCCESSFUL, 0, PermitFail8(loop.log, loop.Page))
       ELSE [rec EXCEPT !.pc = "built", !.log = logU]

PermitForeignAccess_Construct(i, f) ==
    /\ irps[i].pc = "checked"
    /\ irps[i].Type = XENIFACE_CONTEXT_GRANT
    /\ \/ f \in PermitFailures(0)
       \/ f[1] = "Page" /\ f[2] \in 0..(irps[i].NumberPages - 1)
    /\ irps' = [irps EXCEPT ![i] = PermitConstruct(irps[i], f)]
    /\ UNCHANGED <<IrpQueue, ret, evtchnVars, InterfacesAcquired, threads>>

\* Lines 259-266 and fail11: park the IRP, or unwind when the id is a duplicate.
PermitInsert(rec) ==
    LET status == CsqInsertIrpEx(IdOf(rec)) IN
    IF status # STATUS_SUCCESS
    THEN CompleteWith(rec, status, 0, PermitFail11(rec.log, rec.NumberPages, rec.Process))
    ELSE [rec EXCEPT !.pc = "queued", !.tail = TRUE]

PermitForeignAccess_Insert(i) ==
    /\ irps[i].pc = "built"
    /\ irps[i].Type = XENIFACE_CONTEXT_GRANT
    /\ irps' = [irps EXCEPT ![i] = PermitInsert(irps[i])]
    /\ IrpQueue' = IF irps'[i].pc = "queued" THEN Append(IrpQueue, i) ELSE IrpQueue
    /\ UNCHANGED <<ret, evtchnVars, InterfacesAcquired, threads>>

\* XenIfaceIoctl, done (lines 1898-1905) for a handler that returned
\* STATUS_PENDING: the status is stored into the IRP, which is not completed.
\* The IRP is in the queue since the handler returned: a Revoke, an Unmap or a
\* cancellation may have taken it, and completed it, by now.
XenIfaceIoctl_Done(i) ==
    /\ irps[i].tail
    /\ irps' = [irps EXCEPT ![i].tail = FALSE, ![i].Status = STATUS_PENDING,
                            ![i].lateWrite = (irps[i].completions # <<>>)]
    /\ UNCHANGED <<IrpQueue, ret, evtchnVars, InterfacesAcquired, threads>>


\* ------------------------------------------------------------ GnttabFreeGrant
\* The notify step shared by GnttabFreeGrant and GnttabFreeMap: the byte at
\* NotifyOffset is zeroed, then the notify port is signalled.
NotifyLog(rec, log) ==
    LET log1 == IF HasFlag(rec.Flags, XENIFACE_GNTTAB_USE_NOTIFY_OFFSET)
                THEN Append(log, Ev("NotifyOffset", rec.NotifyOffset)) ELSE log
        sent == EvtchnNotify(rec.NotifyPort, NoFileObject)
    IN IF HasFlag(rec.Flags, XENIFACE_GNTTAB_USE_NOTIFY_PORT)
       THEN log1 \o (IF sent.Context # 0 THEN <<Ev("Send", sent.Context)>> ELSE <<>>)
                 \o <<Ev("NotifyPort", sent.status)>>
       ELSE log1

\* A revoke loop that stops one page early (Page < NumberPages - 1): the
\* faulty variant the accounting properties must tell from RevokeUp.
RevokeUpStopsEarly(log, Page, NumberPages) ==
    log \o [k \in 1..(NumberPages - Page - 1) |-> Ev("Revoke", Page + k - 1)]

\* for (Page = 0; Page < NumberPages; Page++) RevokeForeignAccess(Grants[Page])
RECURSIVE RevokeUp(_, _, _)
RevokeUp(log, Page, NumberPages) ==
    IF Page >= NumberPages THEN log
    ELSE RevokeUp(Append(log, Ev("Revoke", Page)), Page + 1, NumberPages)

\* A teardown that gives up when the notification fails: the faulty variant
\* the non-fatal-notification property must tell from GnttabFreeGrant.
GnttabFreeGrantStopsOnFailedNotify(rec, log, process) ==
    LET notified == NotifyLog(rec, log)
        last == notified[Len(notified)]
    IN IF /\ HasFlag(rec.Flags, XENIFACE_GNTTAB_USE_NOTIFY_PORT)
          /\ last[2] # STATUS_SUCCESS
       THEN notified
       ELSE RevokeUp(notified \o <<Ev("UnmapIn", process), Ev("Free", "UserVa")>>,
                     0, rec.NumberPages)
                \o <<Ev("Free", "Mdl"), Ev("Free", "KernelVa"), Ev("Free", "Grants"),
                     Ev("Free", "Context")>>

\* GnttabFreeGrant run by a thread whose address space is that of `process`.
GnttabFreeGrant(rec, log, process) ==
    RevokeUp(NotifyLog(rec, log) \o <<Ev("UnmapIn", process), Ev("Free", "UserVa")>>,
             0, rec.NumberPages)
        \o <<Ev("Free", "Mdl"), Ev("Free", "KernelVa"), Ev("Free", "Grants"),
             Ev("Free", "Context")>>

\* -------------------------------------------------------------- GnttabFreeMap
\* A teardown that asks the bus to unmap the foreign pages while the kernel
\* mapping of them still exists: the faulty variant the ordering property must
\* tell from GnttabFreeMap.
GnttabFreeMapUnmapsBusFirst(rec, log, process) ==
    NotifyLog(rec, log)
        \o <<Ev("UnmapIn", process), Ev("Free", "UserVa"), Ev("Free", "Mdl"),
             Ev("Unmap", 0), Ev("Free", "KernelVa"), Ev("Free", "Context")>>

\* Lines 721-749: the notification, MmUnmapLockedPages, IoFreeMdl,
\* MmUnmapIoSpace, XENBUS_GNTTAB(UnmapForeignPages), the release of the context.
GnttabFreeMap(rec, log, process) ==
    NotifyLog(rec, log)
        \o <<Ev("UnmapIn", process), Ev("Free", "UserVa"), Ev("Free", "Mdl"),
             Ev("Free", "KernelVa"), Ev("Unmap", 0), Ev("Free", "Context")>>

GnttabFree(rec, log, process) ==
    IF rec.Type = XENIFACE_CONTEXT_GRANT THEN GnttabFreeGrant(rec, log, process)
    ELSE GnttabFreeMap(rec, log, process)

\* ------------------------------------------------- IoctlGnttabGetGrantResult
RECURSIVE References(_, _, _)
References(i, Page, NumberPages) ==
    IF Page >= NumberPages THEN <<>>
    ELSE <<GetReference(i, Page)>> \o References(i, Page + 1, NumberPages)

\* What a synchronous handler hands back: its status, the bytes it wrote into
\* the output buffer (Out) and their count (*Info).
Ret(op, p, r, status, out) ==
    [op |-> op, Process |-> p, RequestId |-> r, status |-> status, Out |-> out,
     Held |-> 0, Exit |-> "", Irp |-> 0, OutLen |-> 0,
     Info |-> IF out = <<>> THEN 0
              ELSE IF op = "GetGrantResult"
                   THEN SizeofGetGrantResultOut + SizeofUlong * (Len(out) - 1)
              ELSE IF op = "GetMapResult" THEN SizeofGetMapResultOut
              ELSE IF op = "StoreAddWatch" THEN SizeofAddWatchOut
              ELSE SizeofBindUnboundOut]

\* A lookup by request id alone, which answers a client with the grant of
\* another client: the faulty variant the not-found property must tell from
\* GetGrantResult.
GetGrantResultOfAnyProcess(p, In) ==
    LET owners == {q \in Procs :
                      CsqPeekNextIrp(MkId(q, In.RequestId, XENIFACE_CONTEXT_GRANT)) # 0}
        Irp == IF owners = {} THEN 0
               ELSE CsqPeekNextIrp(MkId(CHOOSE q \in owners : TRUE, In.RequestId,
                                        XENIFACE_CONTEXT_GRANT))
    IN  IF In.InLen # SizeofGetGrantResultIn
        THEN Ret("GetGrantResult", p, In.RequestId, STATUS_INVALID_BUFFER_SIZE, <<>>)
        ELSE IF Irp = 0
        THEN Ret("GetGrantResult", p, In.RequestId, STATUS_NOT_FOUND, <<>>)
        ELSE IF In.OutLen # SizeofGetGrantResultOut + SizeofUlong * irps[Irp].NumberPages
        THEN Ret("GetGrantResult", p, In.RequestId, STATUS_INVALID_BUFFER_SIZE, <<>>)
        ELSE Ret("GetGrantResult", p, In.RequestId, STATUS_SUCCESS,
                 <<UserVa(Irp)>> \o References(Irp, 0, irps[Irp].NumberPages))

\* The queue lock after a sequence of CsqAcquireLock / CsqReleaseLock calls:
\* 1 if it is still held.
HeldAfter(calls) ==
    Cardinality({k \in 1..Len(calls) : calls[k] = "CsqAcquireLock"})
        - Cardinality({k \in 1..Len(calls) : calls[k] = "CsqReleaseLock"})

\* A size test that lets a larger buffer through (OutLen < where the code has
\* !=): the faulty variant the exact-size property must tell from
\* GetGrantResult.
GetGrantResultAcceptsLarger(p, In) ==
    LET Irp == CsqPeekNextIrp(MkId(p, In.RequestId, XENIFACE_CONTEXT_GRANT)) IN
    IF In.InLen # SizeofGetGrantResultIn
    THEN Ret("GetGrantResult", p, In.RequestId, STATUS_INVALID_BUFFER_SIZE, <<>>)
    ELSE IF Irp = 0
    THEN Ret("GetGrantResult", p, In.RequestId, STATUS_NOT_FOUND, <<>>)
    ELSE IF In.OutLen < SizeofGetGrantResultOut + SizeofUlong * irps[Irp].NumberPages
    THEN Ret("GetGrantResult", p, In.RequestId, STATUS_INVALID_BUFFER_SIZE, <<>>)
    ELSE Ret("GetGrantResult", p, In.RequestId, STATUS_SUCCESS,
             <<UserVa(Irp)>> \o References(Irp, 0, irps[Irp].NumberPages))

\* IoctlGnttabGetGrantResult, lines 338-386: the status, the output, *Info and
\* the queue lock, with the label the handler left by.  fail1 is reached before
\* CsqAcquireLock; fail3 falls through to fail2, which releases the lock, as
\* the success path does.
GetGrantResult(p, In) ==
    LET Irp == CsqPeekNextIrp(MkId(p, In.RequestId, XENIFACE_CONTEXT_GRANT))
        fail1 == <<>>
        fail2 == <<"CsqAcquireLock", "CsqReleaseLock">>
        fail3 == fail2
        success == <<"CsqAcquireLock", "CsqReleaseLock">>
    IN
    IF In.InLen # SizeofGetGrantResultIn
    THEN [Ret("GetGrantResult", p, In.RequestId, STATUS_INVALID_BUFFER_SIZE, <<>>)
             EXCEPT !.Held = HeldAfter(fail1), !.Exit = "fail1"]
    ELSE IF Irp = 0
    THEN [Ret("GetGrantResult", p, In.RequestId, STATUS_NOT_FOUND, <<>>)
             EXCEPT !.Held = HeldAfter(fail2), !.Exit = "fail2"]
    ELSE IF In.OutLen # SizeofGetGrantResultOut + SizeofUlong * irps[Irp].NumberPages
    THEN [Ret("GetGrantResult", p, In.RequestId, STATUS_INVALID_BUFFER_SIZE, <<>>)
             EXCEPT !.Held = HeldAfter(fail3), !.Exit = "fail3"]
    ELSE [Ret("GetGrantResult", p, In.RequestId, STATUS_SUCCESS,
              <<UserVa(Irp)>> \o References(Irp, 0, irps[Irp].NumberPages))
             EXCEPT !.Held = HeldAfter(success), !.Exit = "success"]

\* A query that takes the IRP it found out of the queue (a remove where the
\* code peeks): the faulty variant the repeated-query property must tell from
\* IoctlGnttabGetGrantResult.
GetGrantResultRemoves(p, In) ==
    LET Irp == CsqPeekNextIrp(MkId(p, In.RequestId, XENIFACE_CONTEXT_GRANT)) IN
    /\ ret' = GetGrantResult(p, In)
    /\ IrpQueue' = IF In.InLen = SizeofGetGrantResultIn /\ Irp # 0
                   THEN CsqRemoveIrp(IrpQueue, Irp) ELSE IrpQueue
    /\ UNCHANGED <<irps, evtchnVars, InterfacesAcquired, threads>>

IoctlGnttabGetGrantResult(p, In) ==
    /\ ~NotReady
    /\ ret' = GetGrantResult(p, In)
    /\ UNCHANGED <<irps, IrpQueue, evtchnVars, InterfacesAcquired, threads>>

\* A removal by request id alone, which hands a client the grant of another
\* client: the faulty variant the address-space property must tell from
\* RevokeRemoves.
RevokeRemovesOfAnyProcess(p, In) ==
    LET S == {k \in 1..Len(IrpQueue) :
                 /\ irps[IrpQueue[k]].RequestId = In.RequestId
                 /\ irps[IrpQueue[k]].Type = XENIFACE_CONTEXT_GRANT}
    IN IF In.InLen # SizeofRevokeIn \/ S = {} THEN 0
       ELSE IrpQueue[CHOOSE k \in S : \A j \in S : k <= j]

\* --------------------------------------------- IoctlGnttabRevokeForeignAccess
\* IoCsqRemoveNextIrp under the queue lock (lines 456-469).  A pending IRP that
\* was found is held by the revoking thread (pc "removed") until it is freed.
RevokeRemoves(p, In) ==
    IF In.InLen # SizeofRevokeIn THEN 0
    ELSE CsqPeekNextIrp(MkId(p, In.RequestId, XENIFACE_CONTEXT_GRANT))

\* A revoke that peeks at the pending IRP and leaves it in the queue (where
\* cancellation still finds it): the faulty variant the race properties must
\* tell from IoctlGnttabRevokeForeignAccess.
RevokeForeignAccessPeeksOnly(p, In) ==
    LET PendingIrp == RevokeRemoves(p, In) IN
    /\ PendingIrp # 0
    /\ irps[PendingIrp].pc = "queued"
    /\ irps' = [irps EXCEPT ![PendingIrp].pc = "removed", ![PendingIrp].current = p]
    /\ UNCHANGED <<IrpQueue, ret, evtchnVars, InterfacesAcquired, threads>>

IoctlGnttabRevokeForeignAccess(p, In) ==
    LET PendingIrp == RevokeRemoves(p, In) IN
    /\ ~NotReady
    /\ IF PendingIrp # 0
       THEN /\ IrpQueue' = CsqRemoveIrp(IrpQueue, PendingIrp)
            /\ irps' = [irps EXCEPT ![PendingIrp].pc = "removed",
                                    ![PendingIrp].current = p]
            /\ ret' = ret
       ELSE /\ ret' = Ret("Revoke", p, In.RequestId,
                          IF In.InLen # SizeofRevokeIn
                          THEN STATUS_INVALID_BUFFER_SIZE ELSE STATUS_NOT_FOUND, <<>>)
            /\ UNCHANGED <<irps, IrpQueue>>
    /\ UNCHANGED <<evtchnVars, InterfacesAcquired, threads>>

\* The pending IRP after its context was freed: the handler stores the status
\* and Information 0 into it; IoCompleteRequest is the next statement.
StoreStatus(rec, status, log, by) ==
    [rec EXCEPT !.pc = "completing", !.log = log, !.Status = status,
                !.Information = 0, !.by = by]

\* Lines 471-476: GnttabFreeGrant, then success and 0 are stored into the
\* pending IRP.
IoctlGnttabRevokeForeignAccess_Free(i) ==
    /\ irps[i].pc = "removed"
    /\ irps[i].Type = XENIFACE_CONTEXT_GRANT
    /\ irps' = [irps EXCEPT ![i] =
                   StoreStatus(irps[i], STATUS_SUCCESS,
                               GnttabFreeGrant(irps[i], irps[i].log, irps[i].current),
                               "Revoke")]
    /\ UNCHANGED <<IrpQueue, ret, evtchnVars, InterfacesAcquired, threads>>

\* IoCompleteRequest(PendingIrp) at the end of Revoke (line 477), Unmap (line
\* 790) and CompleteGnttabIrp (line 91): the IRP completes with the status it
\* holds at that moment; Revoke and Unmap then return success (which `ret`
\* does not record while it holds the locals of a query that is under way).
IoCompleteRequest(i) ==
    /\ irps[i].pc = "completing"
    /\ irps' = [irps EXCEPT ![i].pc = "done",
                            ![i].completions = Append(@, irps[i].Status)]
    /\ ret' = IF irps[i].by = "Cancel" \/ ret.Exit = "locked" THEN ret
              ELSE Ret(irps[i].by, irps[i].Process, irps[i].RequestId, STATUS_SUCCESS, <<>>)
    /\ UNCHANGED <<IrpQueue, evtchnVars, InterfacesAcquired, threads>>

\* ------------------------------------------------------------- cancellation
\* The I/O manager cancels a parked IRP: the cancel-safe queue unlinks it under
\* its lock and CsqCompleteCanceledIrp queues the CompleteGnttabIrp work item.
CancelIrp(i) ==
    /\ InQueue(i)
    /\ IrpQueue' = CsqRemoveIrp(IrpQueue, i)
    /\ irps' = [irps EXCEPT ![i].pc = "cancelled"]
    /\ UNCHANGED <<ret, evtchnVars, InterfacesAcquired, threads>>

\* CompleteGnttabIrp, run by a worker thread whose current process is `current`.
CompleteGnttabIrpLog(rec, current) ==
    LET ChangeProcess == current # rec.Process
        log1 == IF ChangeProcess THEN Append(rec.log, Ev("Attach", rec.Process)) ELSE rec.log
        log2 == GnttabFree(rec, log1, IF ChangeProcess THEN rec.Process ELSE current)
        log3 == IF ChangeProcess THEN Append(log2, Ev("Detach", rec.Process)) ELSE log2
    IN log3

\* Lines 59-90: the teardown, then cancelled and 0 are stored into the IRP.
CompleteGnttabIrp(i, current) ==
    /\ irps[i].pc = "cancelled"
    /\ irps' = [irps EXCEPT ![i] =
                   StoreStatus([irps[i] EXCEPT !.current = current], STATUS_CANCELLED,
                               CompleteGnttabIrpLog(irps[i], current), "Cancel")]
    /\ UNCHANGED <<IrpQueue, ret, evtchnVars, InterfacesAcquired, threads>>


\* ------------------------------------------------ IoctlGnttabMapForeignPages
MapFail5(log) == Append(log, Ev("Free", "Context"))
MapFail7(log) == MapFail5(Append(log, Ev("Unmap", 0)))
MapFail8(log) == MapFail7(Append(log, Ev("Free", "KernelVa")))
\* An unwind from fail9 that frees the MDL and the kernel mapping and leaves
\* the bus mapping in place: the faulty variant the unwinding properties must
\* tell from MapFail9.
MapFail9KeepsBusMapping(log) ==
    MapFail5(log \o <<Ev("Free", "Mdl"), Ev("Free", "KernelVa")>>)

MapFail9(log) == MapFail8(Append(log, Ev("Free", "Mdl")))
MapFail11(log, process) ==
    MapFail9(log \o <<Ev("UnmapIn", process), Ev("Free", "UserVa")>>)

MapFailures ==
    {<<"none", 0>>, <<"BusMap", 0>>, <<"KernelVa", 0>>, <<"Mdl", 0>>,
     <<"MapException", 0>>, <<"MapNull", 0>>}

\* Lines 504-549.
MapForeignPages_Validate(i, p, In, okContext) ==
    /\ ~NotReady
    /\ irps[i].pc = "idle"
    /\ \A j \in Irps : j < i => irps[j].pc # "idle"
    /\ LET rec == [irps[i] EXCEPT !.Process = p, !.RequestId = In.RequestId,
                                  !.Type = XENIFACE_CONTEXT_MAP,
                                  !.NumberPages = In.NumberPages, !.Flags = In.Flags,
                                  !.NotifyOffset = In.NotifyOffset,
                                  !.NotifyPort = In.NotifyPort]
           log5 == <<Ev("Alloc", "Context")>>
       IN irps' = [irps EXCEPT ![i] =
            IF In.InLen < SizeofMapIn \/ In.OutLen # 0
            THEN CompleteWith(rec, STATUS_INVALID_BUFFER_SIZE, 0, <<>>)
            ELSE IF In.NumberPages = 0 \/ In.NumberPages > MaxNumberPages
            THEN CompleteWith(rec, STATUS_INVALID_PARAMETER, 0, <<>>)
            ELSE IF HasFlag(In.Flags, XENIFACE_GNTTAB_USE_NOTIFY_OFFSET)
                    /\ In.NotifyOffset >= PagesToBytes32(In.NumberPages)
            THEN CompleteWith(rec, STATUS_INVALID_PARAMETER, 0, <<>>)
            ELSE IF In.InLen # SizeofMapIn + SizeofUlong * In.NumberPages
            THEN CompleteWith(rec, STATUS_INVALID_BUFFER_SIZE, 0, <<>>)
            ELSE IF ~okContext
            THEN CompleteWith(rec, STATUS_NO_MEMORY, 0, <<>>)
            ELSE IF FindGnttabIrp(IdOf(rec)) # 0
            THEN CompleteWith(rec, STATUS_INVALID_PARAMETER, 0, MapFail5(log5))
            ELSE [rec EXCEPT !.pc = "checked", !.log = log5]]
    /\ UNCHANGED <<IrpQueue, ret, evtchnVars, InterfacesAcquired, threads>>

\* Lines 551-594: the bus mapping, the kernel mapping, the MDL, the user mapping.
MapConstruct(rec, f) ==
    LET log6 == Append(rec.log, Ev("Map", 0))
        log7 == Append(log6, Ev("Alloc", "KernelVa"))
        log8 == Append(log7, Ev("Alloc", "Mdl"))
        logU == log8 \o <<Ev("MapIn", rec.Process), Ev("Alloc", "UserVa")>>
    IN IF f[1] = "BusMap"
       THEN CompleteWith(rec, STATUS_BUS_ERROR, 0, MapFail5(rec.log))
       ELSE IF f[1] = "KernelVa"
       THEN CompleteWith(rec, STATUS_NO_MEMORY, 0, MapFail7(log6))
       ELSE IF f[1] = "Mdl"
       THEN CompleteWith(rec, STATUS_NO_MEMORY, 0, MapFail8(log7))
       ELSE IF f[1] = "MapException"
       THEN CompleteWith(rec, STATUS_ACCESS_VIOLATION, 0, MapFail9(log8))
       ELSE IF f[1] = "MapNull"
       THEN CompleteWith(rec, STATUS_UNSUCCESSFUL, 0, MapFail9(log8))
       ELSE [rec EXCEPT !.pc = "built", !.log = logU]

MapForeignPages_Construct(i, f) ==
    /\ irps[i].pc = "checked"
    /\ irps[i].Type = XENIFACE_CONTEXT_MAP
    /\ f \in MapFailures
    /\ irps' = [irps EXCEPT ![i] = MapConstruct(irps[i], f)]
    /\ UNCHANGED <<IrpQueue, ret, evtchnVars, InterfacesAcquired, threads>>

\* Lines 596-603 and fail11.
MapInsert(rec) ==
    LET status == CsqInsertIrpEx(IdOf(rec)) IN
    IF status # STATUS_SUCCESS
    THEN CompleteWith(rec, status, 0, MapFail11(rec.log, rec.Process))
    ELSE [rec EXCEPT !.pc = "queued", !.tail = TRUE]

MapForeignPages_Insert(i) ==
    /\ irps[i].pc = "built"
    /\ irps[i].Type = XENIFACE_CONTEXT_MAP
    /\ irps' = [irps EXCEPT ![i] = MapInsert(irps[i])]
    /\ IrpQueue' = IF irps'[i].pc = "queued" THEN Append(IrpQueue, i) ELSE IrpQueue
    /\ UNCHANGED <<ret, evtchnVars, InterfacesAcquired, threads>>

\* --------------------------------------------------- IoctlGnttabGetMapResult
GetMapResult(p, In) ==
    LET Irp == CsqPeekNextIrp(MkId(p, In.RequestId, XENIFACE_CONTEXT_MAP)) IN
    IF In.InLen # SizeofGetMapResultIn \/ In.OutLen # SizeofGetMapResultOut
    THEN Ret("GetMapResult", p, In.RequestId, STATUS_INVALID_BUFFER_SIZE, <<>>)
    ELSE IF Irp = 0
    THEN Ret("GetMapResult", p, In.RequestId, STATUS_NOT_FOUND, <<>>)
    ELSE Ret("GetMapResult", p, In.RequestId, STATUS_SUCCESS, <<UserVa(Irp)>>)

IoctlGnttabGetMapResult(p, In) ==
    /\ ~NotReady
    /\ ret' = GetMapResult(p, In)
    /\ UNCHANGED <<irps, IrpQueue, evtchnVars, InterfacesAcquired, threads>>

\* ---------------------------------------------- IoctlGnttabUnmapForeignPages
\* Lines 767-782: the size test rejects only when both lengths are wrong.
UnmapSizeFails(In) == In.InLen # SizeofUnmapIn /\ In.OutLen # 0

\* A removal by client and request id without the kind, which hands Unmap a
\* pending grant: the faulty variant the lookup properties must tell from
\* UnmapRemoves.
UnmapRemovesOfAnyKind(p, In) ==
    LET S == {k \in 1..Len(IrpQueue) :
                 /\ irps[IrpQueue[k]].RequestId = In.RequestId
                 /\ irps[IrpQueue[k]].Process = p}
    IN IF UnmapSizeFails(In) \/ S = {} THEN 0
       ELSE IrpQueue[CHOOSE k \in S : \A j \in S : k <= j]

\* IoCsqRemoveNextIrp under the queue lock (lines 773-782).
UnmapRemoves(p, In) ==
    IF UnmapSizeFails(In) THEN 0
    ELSE CsqPeekNextIrp(MkId(p, In.RequestId, XENIFACE_CONTEXT_MAP))

IoctlGnttabUnmapForeignPages(p, In) ==
    LET PendingIrp == UnmapRemoves(p, In) IN
    /\ ~NotReady
    /\ IF PendingIrp # 0
       THEN /\ IrpQueue' = CsqRemoveIrp(IrpQueue, PendingIrp)
            /\ irps' = [irps EXCEPT ![PendingIrp].pc = "removed",
                                    ![PendingIrp].current = p]
            /\ ret' = ret
       ELSE /\ ret' = Ret("Unmap", p, In.RequestId,
                          IF UnmapSizeFails(In)
                          THEN STATUS_INVALID_BUFFER_SIZE ELSE STATUS_NOT_FOUND, <<>>)
            /\ UNCHANGED <<irps, IrpQueue>>
    /\ UNCHANGED <<evtchnVars, InterfacesAcquired, threads>>

\* Lines 784-789.
IoctlGnttabUnmapForeignPages_Free(i) ==
    /\ irps[i].pc = "removed"
    /\ irps[i].Type = XENIFACE_CONTEXT_MAP
    /\ irps' = [irps EXCEPT ![i] =
                   StoreStatus(irps[i], STATUS_SUCCESS,
                               GnttabFreeMap(irps[i], irps[i].log, irps[i].current),
                               "Unmap")]
    /\ UNCHANGED <<IrpQueue, ret, evtchnVars, InterfacesAcquired, threads>>


\* ------------------------------------------------------------------ inputs
PermitIn(n, flags, offset, port, r) ==
    [InLen |-> SizeofPermitIn, OutLen |-> 0, NumberPages |-> n, Flags |-> flags,
     NotifyOffset |-> offset, NotifyPort |-> port, RequestId |-> r]

\* Requests that pass validation, and requests that each break one rule of it.
PermitInputs ==
    {PermitIn(n, 0, 0, 0, r) : n \in 1..MaxPages, r \in RequestIds}
    \cup {PermitIn(1, XENIFACE_GNTTAB_USE_NOTIFY_OFFSET, PAGE_SIZE - 1, 0, 1),
          PermitIn(1, XENIFACE_GNTTAB_USE_NOTIFY_PORT, 0, 1, 1),
          PermitIn(1, XENIFACE_GNTTAB_USE_NOTIFY_PORT, 0, 2, 1)}
    \cup {PermitIn(0, 0, 0, 0, 1), PermitIn(MaxNumberPages + 1, 0, 0, 0, 1),
          PermitIn(MaxNumberPages, XENIFACE_GNTTAB_USE_NOTIFY_OFFSET, 0, 0, 1),
          PermitIn(1, XENIFACE_GNTTAB_USE_NOTIFY_OFFSET, PAGE_SIZE, 0, 1),
          [PermitIn(1, 0, 0, 0, 1) EXCEPT !.InLen = SizeofPermitIn + 1],
          [PermitIn(1, 0, 0, 0, 1) EXCEPT !.OutLen = 1]}

MapInputs ==
    {[In EXCEPT !.InLen = SizeofMapIn + SizeofUlong * In.NumberPages] : In \in PermitInputs}
    \cup {[PermitIn(1, 0, 0, 0, 1) EXCEPT !.InLen = SizeofMapIn - 1],
          [PermitIn(1, 0, 0, 0, 1) EXCEPT !.InLen = SizeofMapIn + SizeofUlong + 1]}

QueryIn(InLen, OutLen, r) == [InLen |-> InLen, OutLen |-> OutLen, RequestId |-> r]

GetGrantResultInputs ==
    {QueryIn(l, SizeofGetGrantResultOut + SizeofUlong * n, r) :
        l \in {SizeofGetGrantResultIn, SizeofGetGrantResultIn + 1},
        n \in 0..MaxPages, r \in RequestIds}

GetMapResultInputs ==
    {QueryIn(l, o, r) : l \in {SizeofGetMapResultIn, SizeofGetMapResultIn + 1},
                        o \in {SizeofGetMapResultOut, SizeofGetMapResultOut + 1},
                        r \in RequestIds}

RevokeInputs ==
    {QueryIn(l, o, r) : l \in {SizeofRevokeIn, SizeofRevokeIn + 1}, o \in {0, 1},
                        r \in RequestIds}

UnmapInputs ==
    {QueryIn(l, o, r) : l \in {SizeofUnmapIn, SizeofUnmapIn + 1}, o \in {0, 1},
                        r \in RequestIds}

\* ------------------------------------------------------------ specification
NoRet == Ret("none", "none", 0, "none", <<>>)

\* A channel that a client has bound and that is registered and active.
BoundChan(FileObject, LocalPort) ==
    [NoChan EXCEPT !.mem = "alloc", !.FileObject = FileObject, !.LocalPort = LocalPort,
                   !.by = FileObject, !.Active = 1, !.bus = "open", !.masked = FALSE, !.eventRef = 1,
                   !.bindpc = "done"]

\* A processor with no interrupt being served and no DPC queued or running.
IdleCpu ==
    [isr |-> 0,   \* context EvtchnInterruptHandler was called with and found active
     dpc |-> 0,   \* Argument1 of the queued Fdo->EvtchnDpc[cpu]; 0 when not queued
     run |-> 0]   \* context EvtchnNotificationDpc runs with and found active

\* A context slot that IoctlStoreAddWatch has not allocated yet.
NoWatch ==
    [mem |-> "none", FileObject |-> NoFileObject,
     by |-> NoFileObject,     \* the file object the context was allocated for
     watch |-> "none",        \* Context->Watch: none | added | removed
     eventRef |-> 0,
     removes |-> 0]           \* XENBUS_STORE(WatchRemove) calls on the watch

NoCleanup == [pc |-> "none", calls |-> 0, ToFree |-> <<>>]

\* The grant-table handlers run while client F1 has local port 1 bound.
Init ==
    /\ irps = [i \in Irps |-> IdleIrp]
    /\ IrpQueue = <<>>
    /\ ret = NoRet
    /\ chans = [c \in Chans |-> IF c = 1 THEN BoundChan("F1", GetPort(1)) ELSE NoChan]
    /\ EvtchnList = <<1>>
    /\ cpus = [k \in Cpus |-> IdleCpu]
    /\ watches = [w \in Watches |-> NoWatch]
    /\ StoreWatchList = <<>>
    /\ cleanup = [F \in FileObjects |-> NoCleanup]
    /\ InterfacesAcquired = TRUE
    /\ threads = [t \in Threads |-> IdleThread]

\* The I/O manager frees a completed IRP once the dispatching thread has left
\* XenIfaceIoctl; the slot can carry a new request.
IrpReleased(i) ==
    /\ irps[i].pc = "done"
    /\ ~irps[i].tail
    /\ irps' = [irps EXCEPT ![i] = IdleIrp]
    /\ UNCHANGED <<IrpQueue, ret, evtchnVars, InterfacesAcquired, threads>>

\* No request is in flight, parked or completed but not yet released.
Quiet == \A j \in Irps : irps[j].pc = "idle"

\* Construction, parking, completion, cancellation: the steps every run has.
Lifecycle(PermitFs, MapFs) ==
    \/ \E i \in Irps, f \in PermitFs : PermitForeignAccess_Construct(i, f)
    \/ \E i \in Irps : PermitForeignAccess_Insert(i)
    \/ \E i \in Irps, f \in MapFs : MapForeignPages_Construct(i, f)
    \/ \E i \in Irps : MapForeignPages_Insert(i)
    \/ \E i \in Irps : XenIfaceIoctl_Done(i)
    \/ \E i \in Irps : IoctlGnttabRevokeForeignAccess_Free(i)
    \/ \E i \in Irps : IoctlGnttabUnmapForeignPages_Free(i)
    \/ \E i \in Irps : CancelIrp(i)
    \/ \E i \in Irps, current \in Procs \cup {SystemProcess} : CompleteGnttabIrp(i, current)
    \/ \E i \in Irps : IoCompleteRequest(i)

\* Spec: one client request at a time, over every kind of input.
Next ==
    \/ /\ Quiet
       /\ \E i \in Irps, p \in Procs, In \in PermitInputs, okContext \in BOOLEAN :
              PermitForeignAccess_Validate(i, p, In, okContext)
    \/ /\ Quiet
       /\ \E i \in Irps, p \in Procs, In \in MapInputs, okContext \in BOOLEAN :
              MapForeignPages_Validate(i, p, In, okContext)
    \/ Lifecycle(PermitFailures(MaxPages), MapFailures)
    \/ \E p \in Procs, In \in GetGrantResultInputs : IoctlGnttabGetGrantResult(p, In)
    \/ \E p \in Procs, In \in GetMapResultInputs : IoctlGnttabGetMapResult(p, In)
    \/ \E p \in Procs, In \in RevokeInputs : IoctlGnttabRevokeForeignAccess(p, In)
    \/ \E p \in Procs, In \in UnmapInputs : IoctlGnttabUnmapForeignPages(p, In)
    \/ \E i \in Irps : IrpReleased(i)

Spec == Init /\ [][Next]_vars

\* SpecRace: requests of MaxPages pages with request id 1 from every client and
\* of both kinds, running concurrently with revoke, unmap and cancellation.
RaceInputs == {PermitIn(MaxPages, 0, 0, 0, 1)}

RaceMapInputs ==
    {[In EXCEPT !.InLen = SizeofMapIn + SizeofUlong * In.NumberPages] : In \in RaceInputs}

RaceQueries == {QueryIn(SizeofRevokeIn, 0, 1)}

NextRace ==
    \/ \E i \in Irps, p \in Procs, In \in RaceInputs :
           PermitForeignAccess_Validate(i, p, In, TRUE)
    \/ \E i \in Irps, p \in Procs, In \in RaceMapInputs :
           MapForeignPages_Validate(i, p, In, TRUE)
    \/ Lifecycle(PermitFailures(MaxPages), MapFailures)
    \/ \E p \in Procs, In \in RaceQueries : IoctlGnttabRevokeForeignAccess(p, In)
    \/ \E p \in Procs, In \in RaceQueries : IoctlGnttabUnmapForeignPages(p, In)

SpecRace == Init /\ [][NextRace]_vars

\* -------------------------------------------- the result queries, step by step
\* IoctlGnttabGetGrantResult (lines 338-375) and IoctlGnttabGetMapResult (lines
\* 669-696) as the steps of a thread: while it is between CsqAcquireLock and
\* CsqReleaseLock, `ret` holds its locals (Held = 1, Exit = "locked", the IRP
\* it peeked and its OutLen).
\*
\* The reads made through the context of the peeked IRP.  A context that was
\* freed in the meantime yields whatever the freed memory holds.
ReadContext(q, garbage) ==
    LET R(status, out) == Ret(q.op, q.Process, q.RequestId, status, out) IN
    IF Live(irps[q.Irp].log, "Context") = 0
    THEN [R(garbage, <<>>) EXCEPT !.Exit = "use-after-free"]
    ELSE IF q.op = "GetGrantResult"
    THEN IF q.OutLen # SizeofGetGrantResultOut + SizeofUlong * irps[q.Irp].NumberPages
         THEN [R(STATUS_INVALID_BUFFER_SIZE, <<>>) EXCEPT !.Exit = "fail3"]
         ELSE [R(STATUS_SUCCESS,
                 <<UserVa(q.Irp)>> \o References(q.Irp, 0, irps[q.Irp].NumberPages))
                  EXCEPT !.Exit = "success"]
    ELSE [R(STATUS_SUCCESS, <<UserVa(q.Irp)>>) EXCEPT !.Exit = "success"]

\* A query that gives the queue lock up right after the peek: the faulty
\* variant the critical-section properties must tell from GetResult_Lock.
GetResult_LockReleasedAfterPeek(op, p, In) ==
    LET Type == IF op = "GetGrantResult" THEN XENIFACE_CONTEXT_GRANT ELSE XENIFACE_CONTEXT_MAP
        Irp == CsqPeekNextIrp(MkId(p, In.RequestId, Type))
        R(status) == Ret(op, p, In.RequestId, status, <<>>)
    IN
    /\ ~NotReady
    /\ ret.Held = 0
    /\ ret' = IF Irp = 0 THEN [R(STATUS_NOT_FOUND) EXCEPT !.Exit = "fail2"]
              ELSE [R("none") EXCEPT !.Exit = "locked", !.Irp = Irp, !.OutLen = In.OutLen]
    /\ UNCHANGED <<irps, IrpQueue, evtchnVars, InterfacesAcquired, threads>>

\* Lines 347-353 and 680-686, for a request that passed the size test made
\* before the lock: CsqAcquireLock and CsqPeekNextIrp; when nothing is found
\* the handler leaves by fail2, which releases the lock.
GetResult_Lock(op, p, In) ==
    LET Type == IF op = "GetGrantResult" THEN XENIFACE_CONTEXT_GRANT ELSE XENIFACE_CONTEXT_MAP
        Irp == CsqPeekNextIrp(MkId(p, In.RequestId, Type))
        R(status) == Ret(op, p, In.RequestId, status, <<>>)
    IN
    /\ ~NotReady
    /\ ret.Held = 0
    /\ ret' = IF Irp = 0 THEN [R(STATUS_NOT_FOUND) EXCEPT !.Exit = "fail2"]
              ELSE [R("none") EXCEPT !.Held = 1, !.Exit = "locked", !.Irp = Irp,
                                     !.OutLen = In.OutLen]
    /\ UNCHANGED <<irps, IrpQueue, evtchnVars, InterfacesAcquired, threads>>

\* Lines 355-372 and 688-693: the reads of the context, then CsqReleaseLock
\* (on the success path and, through fail3 and fail2, on the failure path).
GetResult_Read(garbage) ==
    /\ ret.Exit = "locked"
    /\ ret' = ReadContext(ret, garbage)
    /\ UNCHANGED <<irps, IrpQueue, evtchnVars, InterfacesAcquired, threads>>

\* SpecQuery: the requests of SpecRace with result queries running beside
\* them.  The steps that take the queue lock (the duplicate check, the
\* insertion, the removal by Revoke, Unmap and the cancel-safe queue) wait
\* while a query holds it; the steps made outside the lock do not.
NextQuery ==
    LET GrantQueries ==
            {QueryIn(SizeofGetGrantResultIn, SizeofGetGrantResultOut + SizeofUlong * n, 1) :
                n \in {MaxPages - 1, MaxPages}}
        MapQueries == {QueryIn(SizeofGetMapResultIn, SizeofGetMapResultOut, 1)}
    IN
    \/ /\ ret.Held = 0
       /\ \/ \E i \in Irps, p \in Procs, In \in RaceInputs :
                 PermitForeignAccess_Validate(i, p, In, TRUE)
          \/ \E i \in Irps, p \in Procs, In \in RaceMapInputs :
                 MapForeignPages_Validate(i, p, In, TRUE)
          \/ \E i \in Irps : PermitForeignAccess_Insert(i)
          \/ \E i \in Irps : MapForeignPages_Insert(i)
          \/ \E i \in Irps : CancelIrp(i)
          \/ \E p \in Procs, In \in RaceQueries : IoctlGnttabRevokeForeignAccess(p, In)
          \/ \E p \in Procs, In \in RaceQueries : IoctlGnttabUnmapForeignPages(p, In)
    \/ \E i \in Irps : PermitForeignAccess_Construct(i, <<"none", 0>>)
    \/ \E i \in Irps : MapForeignPages_Construct(i, <<"none", 0>>)
    \/ \E i \in Irps : XenIfaceIoctl_Done(i)
    \/ \E i \in Irps : IoctlGnttabRevokeForeignAccess_Free(i)
    \/ \E i \in Irps : IoctlGnttabUnmapForeignPages_Free(i)
    \/ \E i \in Irps, current \in Procs \cup {SystemProcess} : CompleteGnttabIrp(i, current)
    \/ \E i \in Irps : IoCompleteRequest(i)
    \/ \E p \in Procs, In \in GrantQueries : GetResult_Lock("GetGrantResult", p, In)
    \/ \E p \in Procs, In \in MapQueries : GetResult_Lock("GetMapResult", p, In)
    \/ \E garbage \in {STATUS_SUCCESS, STATUS_INVALID_BUFFER_SIZE} : GetResult_Read(garbage)

SpecQuery == Init /\ [][NextQuery]_vars

\* SpecTeardown: one request at a time, of every combination of the notify
\* flags, with a notify port that is bound (1) or not (2); it is parked and
\* then revoked, unmapped or cancelled.
NotifyInputs ==
    {PermitIn(MaxPages, flags, PAGE_SIZE - 1, port, 1) :
        flags \in {0, XENIFACE_GNTTAB_USE_NOTIFY_OFFSET, XENIFACE_GNTTAB_USE_NOTIFY_PORT,
                   XENIFACE_GNTTAB_USE_NOTIFY_OFFSET + XENIFACE_GNTTAB_USE_NOTIFY_PORT},
        port \in 1..MaxChans}

NextTeardown ==
    \/ /\ Quiet
       /\ \E i \in Irps, p \in Procs, In \in NotifyInputs :
              PermitForeignAccess_Validate(i, p, In, TRUE)
    \/ /\ Quiet
       /\ \E i \in Irps, p \in Procs, In \in NotifyInputs :
              MapForeignPages_Validate(
                  i, p, [In EXCEPT !.InLen = SizeofMapIn + SizeofUlong * In.NumberPages], TRUE)
    \/ Lifecycle({<<"none", 0>>}, {<<"none", 0>>})
    \/ \E p \in Procs, In \in RaceQueries : IoctlGnttabRevokeForeignAccess(p, In)
    \/ \E p \in Procs, In \in RaceQueries : IoctlGnttabUnmapForeignPages(p, In)
    \/ \E i \in Irps : IrpReleased(i)

SpecTeardown == Init /\ [][NextTeardown]_vars

\* ------------------------------------------------------------ XenIfaceIoctl
STATUS_DEVICE_NOT_READY == "STATUS_DEVICE_NOT_READY"
STATUS_INVALID_DEVICE_REQUEST == "STATUS_INVALID_DEVICE_REQUEST"

\* The request codes of the switch (lines 1817-1892), and a code that is none
\* of them.
KnownIoControlCodes ==
    {"IOCTL_XENIFACE_STORE_READ", "IOCTL_XENIFACE_STORE_WRITE",
     "IOCTL_XENIFACE_STORE_DIRECTORY", "IOCTL_XENIFACE_STORE_REMOVE",
     "IOCTL_XENIFACE_STORE_SET_PERMISSIONS", "IOCTL_XENIFACE_STORE_ADD_WATCH",
     "IOCTL_XENIFACE_STORE_REMOVE_WATCH", "IOCTL_XENIFACE_EVTCHN_BIND_UNBOUND",
     "IOCTL_XENIFACE_EVTCHN_BIND_INTERDOMAIN", "IOCTL_XENIFACE_EVTCHN_CLOSE",
     "IOCTL_XENIFACE_EVTCHN_NOTIFY", "IOCTL_XENIFACE_EVTCHN_UNMASK",
     "IOCTL_XENIFACE_GNTTAB_PERMIT_FOREIGN_ACCESS",
     "IOCTL_XENIFACE_GNTTAB_GET_GRANT_RESULT",
     "IOCTL_XENIFACE_GNTTAB_REVOKE_FOREIGN_ACCESS",
     "IOCTL_XENIFACE_GNTTAB_MAP_FOREIGN_PAGES",
     "IOCTL_XENIFACE_GNTTAB_GET_MAP_RESULT",
     "IOCTL_XENIFACE_GNTTAB_UNMAP_FOREIGN_PAGES"}

UnknownIoControlCode == "IOCTL_UNKNOWN"

IoControlCodes == KnownIoControlCodes \cup {UnknownIoControlCode}

\* Lines 1813-1815 and done: with the interfaces not acquired the request, of
\* whatever code, gets STATUS_DEVICE_NOT_READY and is completed.
XenIfaceIoctl_NotReady(i, IoControlCode, p) ==
    /\ NotReady
    /\ irps[i].pc = "idle"
    /\ \A j \in Irps : j < i => irps[j].pc # "idle"
    /\ irps' = [irps EXCEPT ![i] =
                   CompleteWith([irps[i] EXCEPT !.Process = p],
                                STATUS_DEVICE_NOT_READY, 0, <<>>)]
    /\ ret' = Ret(IoControlCode, p, 0, STATUS_DEVICE_NOT_READY, <<>>)
    /\ UNCHANGED <<IrpQueue, evtchnVars, InterfacesAcquired, threads>>

\* Lines 1893-1895 and done: a code that is none of the cases gets
\* STATUS_INVALID_DEVICE_REQUEST and is completed.
XenIfaceIoctl_Default(i, p) ==
    /\ ~NotReady
    /\ irps[i].pc = "idle"
    /\ \A j \in Irps : j < i => irps[j].pc # "idle"
    /\ irps' = [irps EXCEPT ![i] =
                   CompleteWith([irps[i] EXCEPT !.Process = p],
                                STATUS_INVALID_DEVICE_REQUEST, 0, <<>>)]
    /\ ret' = Ret(UnknownIoControlCode, p, 0, STATUS_INVALID_DEVICE_REQUEST, <<>>)
    /\ UNCHANGED <<IrpQueue, evtchnVars, InterfacesAcquired, threads>>

\* The device has acquired the interfaces of the bus: Fdo->InterfacesAcquired
\* becomes TRUE.
AcquireInterfaces ==
    /\ InterfacesAcquired = FALSE
    /\ InterfacesAcquired' = TRUE
    /\ UNCHANGED <<irps, IrpQueue, ret, evtchnVars, threads>>

\* SpecDispatch: the device from before its interfaces are acquired; requests
\* of every code arrive before and after.
InitDispatch ==
    /\ irps = [i \in Irps |-> IdleIrp]
    /\ IrpQueue = <<>>
    /\ ret = NoRet
    /\ chans = [c \in Chans |-> NoChan]
    /\ EvtchnList = <<>>
    /\ cpus = [k \in Cpus |-> IdleCpu]
    /\ watches = [w \in Watches |-> NoWatch]
    /\ StoreWatchList = <<>>
    /\ cleanup = [F \in FileObjects |-> NoCleanup]
    /\ InterfacesAcquired = FALSE
    /\ threads = [t \in Threads |-> IdleThread]

NextDispatch ==
    \/ AcquireInterfaces
    \/ \E i \in Irps, IoControlCode \in IoControlCodes, p \in Procs :
           XenIfaceIoctl_NotReady(i, IoControlCode, p)
    \/ \E i \in Irps, p \in Procs : XenIfaceIoctl_Default(i, p)
    \/ NextRace

SpecDispatch == InitDispatch /\ [][NextDispatch]_vars

\* ------------------------------------------------------------ LIST_ENTRY
\* A list is the sequence of its entries, head first; the list head is 0.
\* Node->Flink: the entry after Node, the first entry for the head, the head
\* after the last entry.
RECURSIVE Flink(_, _)
Flink(list, Node) ==
    IF list = <<>> THEN 0
    ELSE IF Node = 0 THEN list[1]
    ELSE IF list[1] = Node THEN (IF Len(list) > 1 THEN list[2] ELSE 0)
    ELSE Flink(Tail(list), Node)

RemoveEntryList(list, Entry) == SelectSeq(list, LAMBDA e : e # Entry)

\* --------------------------------------------------- IoctlEvtchnBindUnbound
STATUS_INVALID_HANDLE == "STATUS_INVALID_HANDLE"  \* ObReferenceObjectByHandle refuses In->Event

\* The context slot the next ExAllocatePoolWithTag hands out; 0 when none is left.
FreeChan == IF \E c \in Chans : chans[c].mem = "none"
            THEN CHOOSE c \in Chans : chans[c].mem = "none" /\ \A d \in Chans : d < c => chans[d].mem # "none"
            ELSE 0

BindFailures == {"none", "Size", "NoMemory", "Event", "Open"}

\* Lines 827-863: the context, the event reference, the bus channel (opened
\* masked), its port, and the insertion into Fdo->EvtchnList.  A failure undoes
\* what was done and returns (fail1..fail4).
IoctlEvtchnBindUnbound_Insert(FileObject, f) ==
    /\ ~NotReady
    /\ cleanup[FileObject].calls = 0
    /\ FreeChan # 0
    /\ f \in BindFailures
    /\ IF f = "none"
       THEN /\ chans' = [chans EXCEPT ![FreeChan] =
                           [NoChan EXCEPT !.mem = "alloc", !.FileObject = FileObject,
                                          !.by = FileObject, !.eventRef = 1, !.bus = "open",
                                          !.LocalPort = GetPort(FreeChan),
                                          !.bindpc = "inserted"]]
            /\ EvtchnList' = Append(EvtchnList, FreeChan)
            /\ ret' = ret
       ELSE /\ ret' = Ret("EvtchnBindUnbound", FileObject, 0,
                          CASE f = "Size" -> STATUS_INVALID_BUFFER_SIZE
                            [] f = "NoMemory" -> STATUS_NO_MEMORY
                            [] f = "Event" -> STATUS_INVALID_HANDLE
                            [] OTHER -> STATUS_UNSUCCESSFUL, <<>>)
            /\ UNCHANGED <<chans, EvtchnList>>
    /\ UNCHANGED <<InterfacesAcquired, threads, gnttabVars, cpus, watches, StoreWatchList, cleanup>>

\* Lines 865-877: Active is set, the port is written to the output buffer and
\* the channel is unmasked unless In->Mask.  The context is in the list by now:
\* a Close that ran in between has freed it.
IoctlEvtchnBindUnbound_Activate(c, Mask) ==
    /\ chans[c].bindpc = "inserted"
    /\ chans' = [chans EXCEPT
           ![c].bindpc = "done",
           ![c].Active = IF chans[c].mem = "freed" THEN @ ELSE 1,
           ![c].wroteFreed = @ \/ chans[c].mem = "freed",
           ![c].masked = IF ~Mask /\ chans[c].bus = "open" THEN FALSE ELSE @,
           ![c].opsAfterClose = @ \/ (~Mask /\ chans[c].bus = "closed")]
    /\ ret' = Ret("EvtchnBindUnbound", chans[c].FileObject, GetPort(c), STATUS_SUCCESS,
                  <<GetPort(c)>>)
    /\ UNCHANGED <<InterfacesAcquired, threads, gnttabVars, EvtchnList, cpus, watches, StoreWatchList, cleanup>>

\* ------------------------------------------------- EvtchnInterruptHandler
\* The bus calls the handler of an open, unmasked channel on processor k and
\* masks the channel (it was opened with Mask TRUE).  Line 628: Context->Active
\* is read.
EvtchnInterruptHandler_Read(k, c) ==
    /\ chans[c].bus = "open"
    /\ ~chans[c].masked
    /\ cpus[k].isr = 0
    /\ chans' = [chans EXCEPT ![c].masked = TRUE]
    /\ cpus' = [cpus EXCEPT ![k].isr = IF chans[c].Active = 1 THEN c ELSE 0]
    /\ UNCHANGED <<InterfacesAcquired, threads, gnttabVars, ret, EvtchnList, watches, StoreWatchList, cleanup>>

\* Line 629: KeInsertQueueDpc(&Fdo->EvtchnDpc[k], Context, NULL); a DPC object
\* that is already queued stays queued with the arguments it has.
EvtchnInterruptHandler_Queue(k) ==
    /\ cpus[k].isr # 0
    /\ cpus' = [cpus EXCEPT ![k].isr = 0,
                            ![k].dpc = IF @ = 0 THEN cpus[k].isr ELSE @]
    /\ UNCHANGED <<InterfacesAcquired, threads, gnttabVars, ret, chans, EvtchnList, watches, StoreWatchList, cleanup>>

\* --------------------------------------------------- EvtchnNotificationDpc
\* A processor on which no DPC is queued or running any more is one that
\* KeFlushQueuedDpcs no longer waits for.
Flushed(all, cs) ==
    [c \in Chans |->
        [all[c] EXCEPT !.flushWait =
            @ \ {k \in Cpus : cs[k].dpc = 0 /\ cs[k].run = 0}]]

\* Processor k takes the DPC off its queue and the routine reads
\* Context->Active (line 601).  What a read of freed memory yields is not
\* defined: Active is then either value.
EvtchnNotificationDpc_Read(k, Active) ==
    LET c == cpus[k].dpc
        cs == [cpus EXCEPT ![k].dpc = 0, ![k].run = IF Active = 1 THEN c ELSE 0]
    IN /\ c # 0
       /\ cpus[k].run = 0
       /\ cpus[k].isr = 0
       /\ Active \in {0, 1}
       /\ chans[c].mem = "alloc" => Active = chans[c].Active
       /\ cpus' = cs
       /\ chans' = Flushed([chans EXCEPT ![c].dpcReadFreed = @ \/ chans[c].mem = "freed"], cs)
       /\ UNCHANGED <<InterfacesAcquired, threads, gnttabVars, ret, EvtchnList, watches, StoreWatchList, cleanup>>

\* Lines 602-607: KeSetEvent(Context->Event), XENBUS_EVTCHN(Unmask).
EvtchnNotificationDpc_Signal(k) ==
    LET c == cpus[k].run
        cs == [cpus EXCEPT ![k].run = 0]
    IN /\ c # 0
       /\ cpus[k].isr = 0
       /\ cpus' = cs
       /\ chans' = Flushed([chans EXCEPT
              ![c].signalled = TRUE,
              ![c].dpcReadFreed = @ \/ chans[c].mem = "freed",
              ![c].setAfterFree = @ \/ chans[c].eventRef = 0,
              ![c].masked = IF chans[c].bus = "open" THEN FALSE ELSE @,
              ![c].opsAfterClose = @ \/ chans[c].bus # "open"], cs)
       /\ UNCHANGED <<InterfacesAcquired, threads, gnttabVars, ret, EvtchnList, watches, StoreWatchList, cleanup>>

\* ---------------------------------------------------------------- EvtchnFree
\* Line 648: InterlockedExchange8(&Context->Active, 0).
EvtchnFree_Deactivate(c) ==
    /\ chans[c].freepc = "detached"
    /\ chans' = [chans EXCEPT ![c].freepc = "inactive", ![c].Active = 0]
    /\ UNCHANGED <<InterfacesAcquired, threads, gnttabVars, ret, EvtchnList, cpus, watches, StoreWatchList, cleanup>>

\* An EvtchnFree that does not wait for any DPC: the faulty variant the
\* flush-before-free property must tell from the call of KeFlushQueuedDpcs.
FreeWithoutFlush == {}

\* Line 657: the processors whose queued or running DPC KeFlushQueuedDpcs
\* waits for.
KeFlushQueuedDpcs == {k \in Cpus : cpus[k].dpc # 0 \/ cpus[k].run # 0}

\* Lines 652-657: XENBUS_EVTCHN(Close), which returns when no handler of the
\* channel is running and after which the bus calls it no more; then the call
\* of KeFlushQueuedDpcs.
EvtchnFree_Close(c) ==
    /\ chans[c].freepc = "inactive"
    /\ \A k \in Cpus : cpus[k].isr # c
    /\ chans' = [chans EXCEPT ![c].freepc = "closed", ![c].bus = "closed",
                              ![c].closes = @ + 1,
                              ![c].flushWait = KeFlushQueuedDpcs]
    /\ UNCHANGED <<InterfacesAcquired, threads, gnttabVars, ret, EvtchnList, cpus, watches, StoreWatchList, cleanup>>

\* Lines 659-661, once KeFlushQueuedDpcs has returned: the event reference is
\* dropped, the context zeroed and freed.  IoctlEvtchnClose then returns success.
EvtchnFree_Release(c) ==
    /\ chans[c].freepc = "closed"
    /\ chans[c].flushWait = {}
    /\ chans' = [chans EXCEPT ![c].freepc = "freed", ![c].mem = "freed",
                              ![c].eventRef = @ - 1,
                              ![c].FileObject = NoFileObject, ![c].LocalPort = 0,
                              ![c].Active = 0]
    /\ ret' = IF chans[c].owner = "close"
              THEN Ret("EvtchnClose", chans[c].FileObject, chans[c].LocalPort,
                       STATUS_SUCCESS, <<>>)
              ELSE ret
    /\ UNCHANGED <<InterfacesAcquired, threads, gnttabVars, EvtchnList, cpus, watches, StoreWatchList, cleanup>>

\* A Close that looks the context up and leaves it in the list: the faulty
\* variant the exactly-once properties must tell from IoctlEvtchnClose.
IoctlEvtchnClosePeeksOnly(FileObject, LocalPort) ==
    LET Context == EvtchnFindChannel(LocalPort, FileObject) IN
    /\ ~NotReady
    /\ IF Context # 0
       THEN /\ EvtchnList' = EvtchnList
            /\ chans' = [chans EXCEPT ![Context].freepc = "detached",
                                      ![Context].owner = "close"]
            /\ ret' = ret
       ELSE /\ ret' = Ret("EvtchnClose", FileObject, LocalPort, STATUS_NOT_FOUND, <<>>)
            /\ UNCHANGED <<chans, EvtchnList>>
    /\ UNCHANGED <<InterfacesAcquired, threads, gnttabVars, cpus, watches, StoreWatchList, cleanup>>

\* ------------------------------------------------------------ IoctlEvtchnClose
\* Lines 993-1003: under Fdo->EvtchnLock the context is looked up and unlinked;
\* EvtchnFree follows.  STATUS_NOT_FOUND when there is none.
\* The request may have been sent before the handle was closed and reach the
\* lock after XenIfaceCleanup has walked the list.
IoctlEvtchnClose(FileObject, LocalPort) ==
    LET Context == EvtchnFindChannel(LocalPort, FileObject) IN
    /\ ~NotReady
    /\ IF Context # 0
       THEN /\ EvtchnList' = CsqRemoveIrp(EvtchnList, Context)
            /\ chans' = [chans EXCEPT ![Context].freepc = "detached",
                                      ![Context].owner = "close"]
            /\ ret' = ret
       ELSE /\ ret' = Ret("EvtchnClose", FileObject, LocalPort, STATUS_NOT_FOUND, <<>>)
            /\ UNCHANGED <<chans, EvtchnList>>
    /\ UNCHANGED <<InterfacesAcquired, threads, gnttabVars, cpus, watches, StoreWatchList, cleanup>>

\* ----------------------------------------- IoctlEvtchnNotify, IoctlEvtchnUnmask
\* Lines 1056-1077 and 1019-1052: under Fdo->EvtchnLock the context is looked up
\* and XENBUS_EVTCHN(Send) is called on its channel.
IoctlEvtchnNotify(FileObject, LocalPort) ==
    LET found == EvtchnNotify(LocalPort, FileObject) IN
    /\ ~NotReady
    /\ cleanup[FileObject].calls = 0
    /\ chans' = IF found.Context = 0 THEN chans
                ELSE [chans EXCEPT ![found.Context].opsAfterClose =
                                       @ \/ chans[found.Context].bus # "open"]
    /\ ret' = Ret("EvtchnNotify", FileObject, LocalPort, found.status, <<>>)
    /\ UNCHANGED <<InterfacesAcquired, threads, gnttabVars, EvtchnList, cpus, watches, StoreWatchList, cleanup>>

\* Lines 1081-1122: under Fdo->EvtchnLock the context is looked up and
\* XENBUS_EVTCHN(Unmask) is called on its channel.
IoctlEvtchnUnmask(FileObject, LocalPort) ==
    LET Context == EvtchnFindChannel(LocalPort, FileObject) IN
    /\ ~NotReady
    /\ cleanup[FileObject].calls = 0
    /\ chans' = IF Context = 0 THEN chans
                ELSE [chans EXCEPT
                         ![Context].masked = IF chans[Context].bus = "open" THEN FALSE ELSE @,
                         ![Context].opsAfterClose = @ \/ chans[Context].bus # "open"]
    /\ ret' = Ret("EvtchnUnmask", FileObject, LocalPort,
                  IF Context = 0 THEN STATUS_INVALID_PARAMETER ELSE STATUS_SUCCESS, <<>>)
    /\ UNCHANGED <<InterfacesAcquired, threads, gnttabVars, EvtchnList, cpus, watches, StoreWatchList, cleanup>>

\* ---------------------------------------------------------- IoctlStoreAddWatch
FreeWatch == IF \E w \in Watches : watches[w].mem = "none"
             THEN CHOOSE w \in Watches : watches[w].mem = "none" /\ \A v \in Watches : v < w => watches[v].mem # "none"
             ELSE 0

AddWatchFailures == {"none", "Size", "Path", "Capture", "NoMemory", "Event", "WatchAdd"}

\* Lines 433-482; a failure undoes what was done and returns (fail1..fail6).
IoctlStoreAddWatch(FileObject, f) ==
    /\ ~NotReady
    /\ cleanup[FileObject].calls = 0
    /\ FreeWatch # 0
    /\ f \in AddWatchFailures
    /\ IF f = "none"
       THEN /\ watches' = [watches EXCEPT ![FreeWatch] =
                              [NoWatch EXCEPT !.mem = "alloc", !.FileObject = FileObject,
                                              !.by = FileObject, !.eventRef = 1, !.watch = "added"]]
            /\ StoreWatchList' = Append(StoreWatchList, FreeWatch)
            /\ ret' = Ret("StoreAddWatch", FileObject, 0, STATUS_SUCCESS, <<FreeWatch>>)
       ELSE /\ ret' = Ret("StoreAddWatch", FileObject, 0,
                          CASE f = "Size" -> STATUS_INVALID_BUFFER_SIZE
                            [] f = "Path" -> STATUS_INVALID_PARAMETER
                            [] f = "Capture" -> STATUS_ACCESS_VIOLATION
                            [] f = "NoMemory" -> STATUS_NO_MEMORY
                            [] f = "Event" -> STATUS_INVALID_HANDLE
                            [] OTHER -> STATUS_BUS_ERROR, <<>>)
            /\ UNCHANGED <<watches, StoreWatchList>>
    /\ UNCHANGED <<InterfacesAcquired, threads, gnttabVars, chans, EvtchnList, cpus, cleanup>>

\* -------------------------------------------------------------- StoreFreeWatch
\* XENBUS_STORE(WatchRemove), ObDereferenceObject, the context zeroed and freed.
StoreFreeWatch(Context) ==
    [Context EXCEPT !.watch = "removed", !.removes = @ + 1, !.eventRef = @ - 1,
                    !.FileObject = NoFileObject, !.mem = "freed"]

\* ------------------------------------------------------------- XenIfaceCleanup
\* A walk that leaves the loop after the first context it frees (a break after
\* StoreFreeWatch): the faulty variant the cleanup properties must tell from
\* CleanupWatches.
CleanupWatchesFirstOnly(Node, list, all, FileObject) ==
    LET owned == {n \in 1..Len(list) : all[list[n]].FileObject = FileObject} IN
    IF owned = {} THEN [list |-> list, all |-> all]
    ELSE LET first == list[CHOOSE n \in owned : \A m \in owned : n <= m]
         IN [list |-> RemoveEntryList(list, first),
             all |-> [all EXCEPT ![first] = StoreFreeWatch(@)]]

\* Lines 682-695: the walk over Fdo->StoreWatchList under StoreWatchLock.
\*   Node = List.Flink;
\*   while (Node->Flink != List.Flink) { Context = Node; Node = Node->Flink;
\*       if (Context->FileObject != FileObject) continue;
\*       RemoveEntryList(Context); StoreFreeWatch(Context); }
RECURSIVE CleanupWatches(_, _, _, _)
CleanupWatches(Node, list, all, FileObject) ==
    IF Flink(list, Node) = Flink(list, 0) THEN [list |-> list, all |-> all]
    ELSE IF all[Node].FileObject # FileObject
         THEN CleanupWatches(Flink(list, Node), list, all, FileObject)
    ELSE CleanupWatches(Flink(list, Node), RemoveEntryList(list, Node),
                        [all EXCEPT ![Node] = StoreFreeWatch(@)], FileObject)

\* A walk that moves every context to ToFree, whoever owns it (no test of
\* EvtchnContext->FileObject): the faulty variant the frame properties must
\* tell from CleanupChannels.
CleanupChannelsOfAnyClient(Node, list, ToFree, FileObject) ==
    [list |-> <<>>, ToFree |-> ToFree \o list]

\* Lines 698-713: the walk over Fdo->EvtchnList under EvtchnLock; the client's
\* contexts move to the local list ToFree.
RECURSIVE CleanupChannels(_, _, _, _)
CleanupChannels(Node, list, ToFree, FileObject) ==
    IF Flink(list, Node) = Flink(list, 0) THEN [list |-> list, ToFree |-> ToFree]
    ELSE IF chans[Node].FileObject # FileObject
         THEN CleanupChannels(Flink(list, Node), list, ToFree, FileObject)
    ELSE CleanupChannels(Flink(list, Node), RemoveEntryList(list, Node),
                         Append(ToFree, Node), FileObject)

\* A cleanup that also sweeps the request queue (every parked request is
\* unlinked as by cancellation): the faulty variant the frame properties must
\* tell from XenIfaceCleanup.
XenIfaceCleanupSweepsQueue(FileObject) ==
    LET ws == CleanupWatches(Flink(StoreWatchList, 0), StoreWatchList, watches, FileObject)
        cs == CleanupChannels(Flink(EvtchnList, 0), EvtchnList, <<>>, FileObject)
    IN /\ cleanup[FileObject].pc # "freeing"
       /\ cleanup[FileObject].calls < MaxCleanups
       /\ watches' = ws.all
       /\ StoreWatchList' = ws.list
       /\ EvtchnList' = cs.list
       /\ chans' = [c \in Chans |->
                       IF \E n \in 1..Len(cs.ToFree) : cs.ToFree[n] = c
                       THEN [chans[c] EXCEPT !.freepc = "queued", !.owner = "cleanup"]
                       ELSE chans[c]]
       /\ cleanup' = [cleanup EXCEPT ![FileObject] =
                         [pc |-> "freeing", calls |-> @.calls + 1, ToFree |-> cs.ToFree]]
       /\ IrpQueue' = <<>>
       /\ irps' = [i \in Irps |-> IF InQueue(i) THEN [irps[i] EXCEPT !.pc = "cancelled"]
                                  ELSE irps[i]]
       /\ UNCHANGED <<InterfacesAcquired, threads, ret, cpus>>

\* XenIfaceCleanup up to line 713: both walks.
XenIfaceCleanup(FileObject) ==
    LET ws == CleanupWatches(Flink(StoreWatchList, 0), StoreWatchList, watches, FileObject)
        cs == CleanupChannels(Flink(EvtchnList, 0), EvtchnList, <<>>, FileObject)
    IN /\ cleanup[FileObject].pc # "freeing"
       /\ cleanup[FileObject].calls < MaxCleanups
       /\ watches' = ws.all
       /\ StoreWatchList' = ws.list
       /\ EvtchnList' = cs.list
       /\ chans' = [c \in Chans |->
                       IF \E n \in 1..Len(cs.ToFree) : cs.ToFree[n] = c
                       THEN [chans[c] EXCEPT !.freepc = "queued", !.owner = "cleanup"]
                       ELSE chans[c]]
       /\ cleanup' = [cleanup EXCEPT ![FileObject] =
                         [pc |-> "freeing", calls |-> @.calls + 1, ToFree |-> cs.ToFree]]
       /\ UNCHANGED <<InterfacesAcquired, threads, gnttabVars, ret, cpus>>

\* Lines 715-722: the walk over ToFree: the next context is unlinked and handed
\* to EvtchnFree, when EvtchnFree has returned for the one before.
XenIfaceCleanup_Free(FileObject) ==
    LET ToFree == cleanup[FileObject].ToFree IN
    /\ cleanup[FileObject].pc = "freeing"
    /\ ToFree # <<>>
    /\ \A c \in Chans :
           chans[c].owner = "cleanup" /\ chans[c].FileObject = FileObject
               => chans[c].freepc = "queued"
    /\ chans' = [chans EXCEPT ![ToFree[1]].freepc = "detached"]
    /\ cleanup' = [cleanup EXCEPT ![FileObject].ToFree = Tail(ToFree)]
    /\ UNCHANGED <<InterfacesAcquired, threads, gnttabVars, ret, EvtchnList, cpus, watches, StoreWatchList>>

\* XenIfaceCleanup returns.
XenIfaceCleanup_Return(FileObject) ==
    /\ cleanup[FileObject].pc = "freeing"
    /\ cleanup[FileObject].ToFree = <<>>
    /\ \A c \in Chans : ~(chans[c].owner = "cleanup" /\ chans[c].FileObject = FileObject)
    /\ cleanup' = [cleanup EXCEPT ![FileObject].pc = "done"]
    /\ UNCHANGED <<InterfacesAcquired, threads, gnttabVars, ret, chans, EvtchnList, cpus, watches, StoreWatchList>>

\* ------------------------------------------------------- IoctlStoreRemoveWatch
\* Lines 549-561: the walk over Fdo->StoreWatchList under StoreWatchLock.
\*   Node = List.Flink;
\*   while (Node->Flink != List.Flink) { Context = Node; Node = Node->Flink;
\*       if (Context != In->Context || Context->FileObject != FileObject) continue;
\*       RemoveEntryList(Context); break; }
\* Context is the local of the handler: NULL (0) before the first entry, then
\* the entry visited last.
RECURSIVE RemoveWatchWalk(_, _, _, _, _, _)
RemoveWatchWalk(Node, list, all, InContext, FileObject, Context) ==
    IF Flink(list, Node) = Flink(list, 0) THEN [list |-> list, Context |-> Context]
    ELSE IF Node # InContext \/ all[Node].FileObject # FileObject
         THEN RemoveWatchWalk(Flink(list, Node), list, all, InContext, FileObject, Node)
    ELSE [list |-> RemoveEntryList(list, Node), Context |-> Node]

RemoveWatchFailures == {"none", "Size"}

\* Handles a client can pass in In->Context: the address of any context slot,
\* or an address that is no context (MaxWatches + 1).
WatchHandles == 1..(MaxWatches + 1)

\* Lines 527-576.
IoctlStoreRemoveWatch(FileObject, InContext, f) ==
    LET w == RemoveWatchWalk(Flink(StoreWatchList, 0), StoreWatchList, watches,
                             InContext, FileObject, 0)
    IN /\ ~NotReady
       /\ cleanup[FileObject].calls = 0
       /\ f \in RemoveWatchFailures
       /\ IF f = "Size"
          THEN /\ ret' = Ret("StoreRemoveWatch", FileObject, InContext,
                             STATUS_INVALID_BUFFER_SIZE, <<>>)
               /\ UNCHANGED <<watches, StoreWatchList>>
          ELSE IF w.Context = 0 \/ w.Context # InContext
          THEN /\ ret' = Ret("StoreRemoveWatch", FileObject, InContext, STATUS_NOT_FOUND, <<>>)
               /\ UNCHANGED <<watches, StoreWatchList>>
          ELSE /\ StoreWatchList' = w.list
               /\ watches' = [watches EXCEPT ![w.Context] = StoreFreeWatch(@)]
               /\ ret' = Ret("StoreRemoveWatch", FileObject, InContext, STATUS_SUCCESS, <<>>)
       /\ UNCHANGED <<InterfacesAcquired, threads, gnttabVars, chans, EvtchnList, cpus, cleanup>>

\* SpecEvtchn: clients bind and close event channels and add watches while
\* the bus raises interrupts, and close their handles.
InitEvtchn ==
    /\ irps = [i \in Irps |-> IdleIrp]
    /\ IrpQueue = <<>>
    /\ ret = NoRet
    /\ chans = [c \in Chans |-> NoChan]
    /\ EvtchnList = <<>>
    /\ cpus = [k \in Cpus |-> IdleCpu]
    /\ watches = [w \in Watches |-> NoWatch]
    /\ StoreWatchList = <<>>
    /\ cleanup = [F \in FileObjects |-> NoCleanup]
    /\ InterfacesAcquired = TRUE
    /\ threads = [t \in Threads |-> IdleThread]

NextEvtchn ==
    \/ \E F \in FileObjects, f \in BindFailures : IoctlEvtchnBindUnbound_Insert(F, f)
    \/ \E c \in Chans, Mask \in BOOLEAN : IoctlEvtchnBindUnbound_Activate(c, Mask)
    \/ \E k \in Cpus, c \in Chans : EvtchnInterruptHandler_Read(k, c)
    \/ \E k \in Cpus : EvtchnInterruptHandler_Queue(k)
    \/ \E k \in Cpus, Active \in {0, 1} : EvtchnNotificationDpc_Read(k, Active)
    \/ \E k \in Cpus : EvtchnNotificationDpc_Signal(k)
    \/ \E F \in FileObjects, LocalPort \in Chans : IoctlEvtchnClose(F, LocalPort)
    \/ \E c \in Chans : EvtchnFree_Deactivate(c)
    \/ \E c \in Chans : EvtchnFree_Close(c)
    \/ \E c \in Chans : EvtchnFree_Release(c)

SpecEvtchn == InitEvtchn /\ [][NextEvtchn]_vars

\* SpecCleanup: clients add watches and bind event channels, and close their
\* handles (XenIfaceCleanup), up to MaxCleanups times each.
NextCleanup ==
    \/ \E F \in FileObjects : IoctlStoreAddWatch(F, "none")
    \/ \E F \in FileObjects : IoctlStoreAddWatch(F, "WatchAdd")
    \/ \E F \in FileObjects : IoctlEvtchnBindUnbound_Insert(F, "none")
    \/ \E c \in Chans : IoctlEvtchnBindUnbound_Activate(c, FALSE)
    \/ \E F \in FileObjects : XenIfaceCleanup(F)
    \/ \E F \in FileObjects : XenIfaceCleanup_Free(F)
    \/ \E F \in FileObjects : XenIfaceCleanup_Return(F)
    \/ \E c \in Chans : EvtchnFree_Deactivate(c)
    \/ \E c \in Chans : EvtchnFree_Close(c)
    \/ \E c \in Chans : EvtchnFree_Release(c)

SpecCleanup == InitEvtchn /\ [][NextCleanup]_vars

\* SpecWatch: two clients add watches and remove watches by handle, their own,
\* the other client's and handles that are no watch.  A context that was freed
\* while it is linked leaves the list with a dangling entry; what a later walk
\* reads there is undefined, and the handlers are followed up to that state.
WatchListSound == \A n \in 1..Len(StoreWatchList) : watches[StoreWatchList[n]].mem = "alloc"

NextWatch ==
    \/ \E F \in FileObjects : WatchListSound /\ IoctlStoreAddWatch(F, "none")
    \/ \E F \in FileObjects : WatchListSound /\ IoctlStoreAddWatch(F, "WatchAdd")
    \/ \E F \in FileObjects, InContext \in WatchHandles, f \in RemoveWatchFailures :
           WatchListSound /\ IoctlStoreRemoveWatch(F, InContext, f)

SpecWatch == InitEvtchn /\ [][NextWatch]_vars

\* SpecSweep: the client with process P1 and file object F1, which has local
\* port 1 bound, parks grants and maps under request id 1, queries, revokes
\* and unmaps them, and closes its handle (XenIfaceCleanup) at any time;
\* parked requests are cancelled at any time.
SweepProcs == {"P1"}
SweepFileObjects == {"F1"}

NextSweep ==
    \/ \E i \in Irps, p \in SweepProcs, In \in RaceInputs :
           PermitForeignAccess_Validate(i, p, In, TRUE)
    \/ \E i \in Irps, p \in SweepProcs, In \in RaceMapInputs :
           MapForeignPages_Validate(i, p, In, TRUE)
    \/ \E i \in Irps : PermitForeignAccess_Construct(i, <<"none", 0>>)
    \/ \E i \in Irps : MapForeignPages_Construct(i, <<"none", 0>>)
    \/ \E i \in Irps : PermitForeignAccess_Insert(i)
    \/ \E i \in Irps : MapForeignPages_Insert(i)
    \/ \E i \in Irps : XenIfaceIoctl_Done(i)
    \/ \E i \in Irps : IoctlGnttabRevokeForeignAccess_Free(i)
    \/ \E i \in Irps : IoctlGnttabUnmapForeignPages_Free(i)
    \/ \E i \in Irps : CancelIrp(i)
    \/ \E i \in Irps : CompleteGnttabIrp(i, SystemProcess)
    \/ \E i \in Irps : IoCompleteRequest(i)
    \/ \E p \in SweepProcs, In \in RaceQueries : IoctlGnttabRevokeForeignAccess(p, In)
    \/ \E p \in SweepProcs, In \in RaceQueries : IoctlGnttabUnmapForeignPages(p, In)
    \/ \E p \in SweepProcs :
           IoctlGnttabGetGrantResult(p, QueryIn(SizeofGetGrantResultIn,
                                                SizeofGetGrantResultOut + SizeofUlong * MaxPages, 1))
    \/ \E p \in SweepProcs :
           IoctlGnttabGetMapResult(p, QueryIn(SizeofGetMapResultIn, SizeofGetMapResultOut, 1))
    \/ \E F \in SweepFileObjects : XenIfaceCleanup(F)
    \/ \E F \in SweepFileObjects : XenIfaceCleanup_Free(F)
    \/ \E F \in SweepFileObjects : XenIfaceCleanup_Return(F)
    \/ \E c \in Chans : EvtchnFree_Deactivate(c)
    \/ \E c \in Chans : EvtchnFree_Close(c)
    \/ \E c \in Chans : EvtchnFree_Release(c)

SpecSweep == Init /\ [][NextSweep]_vars

\* SpecBytes: requests whose page count is at either end of the accepted
\* range, with and without the notify-offset flag, are validated; the
\* construction then fails at one of its three allocations and the request is
\* completed.  Page counts between MaxCheckedPages and 2^20 are left out:
\* their byte length is above 2^31 - 1, the largest integer TLC computes with.
BytesPages == {1, MaxPages, MaxCheckedPages, MaxNumberPages}

BytesInputs ==
    {PermitIn(n, flags, offset, 0, r) :
        n \in BytesPages, flags \in {0, XENIFACE_GNTTAB_USE_NOTIFY_OFFSET},
        offset \in {0, PAGE_SIZE - 1}, r \in RequestIds}

BytesFailures == {<<"Grants", 0>>, <<"BusMap", 0>>, <<"KernelVa", 0>>, <<"Mdl", 0>>}

NextBytes ==
    \/ \E i \in Irps, p \in Procs, In \in BytesInputs :
           PermitForeignAccess_Validate(i, p, In, TRUE)
    \/ \E i \in Irps, p \in Procs, In \in BytesInputs :
           MapForeignPages_Validate(
               i, p, [In EXCEPT !.InLen = SizeofMapIn + SizeofUlong * In.NumberPages], TRUE)
    \/ \E i \in Irps, f \in BytesFailures : PermitForeignAccess_Construct(i, f)
    \/ \E i \in Irps, f \in BytesFailures : MapForeignPages_Construct(i, f)
    \/ \E i \in Irps : IrpReleased(i)

SpecBytes == Init /\ [][NextBytes]_vars

\* SpecSignal: every context slot holds a channel that its client has bound
\* unmasked (the state after MaxChans calls of IoctlEvtchnBindUnbound with
\* In->Mask FALSE); the bus raises interrupts on any processor and clients
\* close channels.  An interrupt handler that was entered returns, and a DPC
\* that is queued on a processor is run by it.
InitSignal ==
    /\ irps = [i \in Irps |-> IdleIrp]
    /\ IrpQueue = <<>>
    /\ ret = NoRet
    /\ chans = [c \in Chans |-> BoundChan(IF c = 1 THEN "F1" ELSE "F2", GetPort(c))]
    /\ EvtchnList = [c \in Chans |-> c]
    /\ cpus = [k \in Cpus |-> IdleCpu]
    /\ watches = [w \in Watches |-> NoWatch]
    /\ StoreWatchList = <<>>
    /\ cleanup = [F \in FileObjects |-> NoCleanup]
    /\ InterfacesAcquired = TRUE
    /\ threads = [t \in Threads |-> IdleThread]

NextSignal ==
    \/ \E k \in Cpus, c \in Chans : EvtchnInterruptHandler_Read(k, c)
    \/ \E k \in Cpus : EvtchnInterruptHandler_Queue(k)
    \/ \E k \in Cpus, Active \in {0, 1} : EvtchnNotificationDpc_Read(k, Active)
    \/ \E k \in Cpus : EvtchnNotificationDpc_Signal(k)
    \/ \E F \in FileObjects, LocalPort \in Chans : IoctlEvtchnClose(F, LocalPort)
    \/ \E c \in Chans : EvtchnFree_Deactivate(c)
    \/ \E c \in Chans : EvtchnFree_Close(c)
    \/ \E c \in Chans : EvtchnFree_Release(c)

SignalFairness ==
    \A k \in Cpus :
        /\ WF_vars(EvtchnInterruptHandler_Queue(k))
        /\ WF_vars(\E Active \in {0, 1} : EvtchnNotificationDpc_Read(k, Active))
        /\ WF_vars(EvtchnNotificationDpc_Signal(k))

SpecSignal == InitSignal /\ [][NextSignal]_vars /\ SignalFairness

\* SpecNotify: the channels of SpecSignal; clients notify, unmask and close
\* them while the bus raises interrupts on the first processor.
NextNotify ==
    \/ \E c \in Chans : EvtchnInterruptHandler_Read(1, c)
    \/ EvtchnInterruptHandler_Queue(1)
    \/ \E Active \in {0, 1} : EvtchnNotificationDpc_Read(1, Active)
    \/ EvtchnNotificationDpc_Signal(1)
    \/ \E F \in FileObjects, LocalPort \in Chans : IoctlEvtchnClose(F, LocalPort)
    \/ \E F \in FileObjects, LocalPort \in Chans : IoctlEvtchnNotify(F, LocalPort)
    \/ \E F \in FileObjects, LocalPort \in Chans : IoctlEvtchnUnmask(F, LocalPort)
    \/ \E c \in Chans : EvtchnFree_Deactivate(c)
    \/ \E c \in Chans : EvtchnFree_Close(c)
    \/ \E c \in Chans : EvtchnFree_Release(c)

SpecNotify == InitSignal /\ [][NextNotify]_vars

\* SpecClose: the channels of SpecSignal; clients close them, twice over, and
\* close their handles while Close requests are in flight.
NextClose ==
    \/ \E F \in FileObjects, LocalPort \in Chans : IoctlEvtchnClose(F, LocalPort)
    \/ \E F \in FileObjects : XenIfaceCleanup(F)
    \/ \E F \in FileObjects : XenIfaceCleanup_Free(F)
    \/ \E F \in FileObjects : XenIfaceCleanup_Return(F)
    \/ \E c \in Chans : EvtchnFree_Deactivate(c)
    \/ \E c \in Chans : EvtchnFree_Close(c)
    \/ \E c \in Chans : EvtchnFree_Release(c)

SpecClose == InitSignal /\ [][NextClose]_vars

\* ------------------------------------------------------------ lock discipline
\* The three registry locks: Fdo->StoreWatchLock, Fdo->EvtchnLock and the lock
\* of Fdo->IrpQueue.
Locks == {"StoreWatchLock", "EvtchnLock", "IrpQueueLock"}

Acquire(L) == [op |-> "acquire", arg |-> L]
Release(L) == [op |-> "release", arg |-> L]
Call(f) == [op |-> "call", arg |-> f]
Wait(f) == [op |-> "wait", arg |-> f]

\* ioctls.c:1032-1049, EvtchnNotify: the bus is asked to Send under EvtchnLock.
EvtchnNotifyCalls == <<Acquire("EvtchnLock"), Call("Send"), Release("EvtchnLock")>>

\* ioctls.c:648-661, EvtchnFree: Close, the wait for the DPCs, the release.
EvtchnFreeCalls == <<Call("Close"), Wait("KeFlushQueuedDpcs"), Call("ExFreePoolWithTag")>>

\* ioctl_gnttab.c:403-437 and 721-749, GnttabFreeGrant / GnttabFreeMap: the
\* notification through EvtchnNotify, then the teardown.
GnttabFreeCalls == EvtchnNotifyCalls \o <<Call("MmUnmapLockedPages"), Call("Revoke")>>

\* A cleanup that calls EvtchnFree on the contexts it owns while it walks the
\* list, inside EvtchnLock: the faulty variant the lock properties must tell
\* from XenIfaceCleanupCalls.
XenIfaceCleanupFreesUnderLock ==
    <<Acquire("StoreWatchLock"), Call("WatchRemove"), Release("StoreWatchLock"),
      Acquire("EvtchnLock")>> \o EvtchnFreeCalls \o <<Release("EvtchnLock")>>

\* ioctls.c:681-723, XenIfaceCleanup with one watch and one channel to free:
\* StoreFreeWatch inside StoreWatchLock, the channel walk inside EvtchnLock,
\* EvtchnFree on the private list after the lock is released.
XenIfaceCleanupCalls ==
    <<Acquire("StoreWatchLock"), Call("WatchRemove"), Release("StoreWatchLock"),
      Acquire("EvtchnLock"), Release("EvtchnLock")>> \o EvtchnFreeCalls

\* The lock operations, bus calls and waits of each handler, in the order of
\* its code.
HandlerCalls(h) ==
    CASE h = "IoctlStoreAddWatch" ->        \* ioctls.c:463-475
           <<Call("WatchAdd"), Acquire("StoreWatchLock"), Release("StoreWatchLock")>>
      [] h = "IoctlStoreRemoveWatch" ->     \* ioctls.c:549-567
           <<Acquire("StoreWatchLock"), Release("StoreWatchLock"), Call("WatchRemove")>>
      [] h = "XenIfaceCleanup" -> XenIfaceCleanupCalls
      [] h = "IoctlEvtchnBindUnbound" ->    \* ioctls.c:846-875
           <<Call("Open"), Acquire("EvtchnLock"), Release("EvtchnLock"), Call("Unmask")>>
      [] h = "IoctlEvtchnClose" ->          \* ioctls.c:998-1004
           <<Acquire("EvtchnLock"), Release("EvtchnLock")>> \o EvtchnFreeCalls
      [] h = "IoctlEvtchnNotify" -> EvtchnNotifyCalls
      [] h = "IoctlEvtchnUnmask" ->         \* ioctls.c:1102-1120
           <<Acquire("EvtchnLock"), Call("Unmask"), Release("EvtchnLock")>>
      [] h = "IoctlGnttabPermitForeignAccess" ->  \* ioctl_gnttab.c:195-262
           <<Acquire("IrpQueueLock"), Release("IrpQueueLock"), Call("PermitForeignAccess"),
             Call("MmMapLockedPagesSpecifyCache"),
             Acquire("IrpQueueLock"), Release("IrpQueueLock")>>
      [] h = "IoctlGnttabGetGrantResult" -> \* ioctl_gnttab.c:348-372
           <<Acquire("IrpQueueLock"), Call("GetReference"), Release("IrpQueueLock")>>
      [] h = "IoctlGnttabRevokeForeignAccess" ->  \* ioctl_gnttab.c:467-477
           <<Acquire("IrpQueueLock"), Release("IrpQueueLock")>> \o GnttabFreeCalls
      [] h = "CompleteGnttabIrp" ->         \* ioctl_gnttab.c:59-91
           <<Call("KeStackAttachProcess")>> \o GnttabFreeCalls
               \o <<Call("KeUnstackDetachProcess")>>
      [] h = "EvtchnNotificationDpc" ->     \* ioctls.c:601-607
           <<Call("KeSetEvent"), Call("Unmask")>>

Handlers ==
    {"IoctlStoreAddWatch", "IoctlStoreRemoveWatch", "XenIfaceCleanup",
     "IoctlEvtchnBindUnbound", "IoctlEvtchnClose", "IoctlEvtchnNotify",
     "IoctlEvtchnUnmask", "IoctlGnttabPermitForeignAccess", "IoctlGnttabGetGrantResult",
     "IoctlGnttabRevokeForeignAccess", "CompleteGnttabIrp", "EvtchnNotificationDpc"}

Running(t) == threads[t].handler # "idle"
Returning(t) == Running(t) /\ threads[t].pc > Len(HandlerCalls(threads[t].handler))
NextCall(t) ==
    IF Running(t) /\ ~Returning(t) THEN HandlerCalls(threads[t].handler)[threads[t].pc]
    ELSE [op |-> "none", arg |-> "none"]

ThreadStep(t, rec) ==
    /\ threads' = [threads EXCEPT ![t] = rec]
    /\ UNCHANGED <<irps, IrpQueue, ret, evtchnVars, InterfacesAcquired>>

\* A thread enters a handler; the DPC is entered by the processor.
Enter(t, h) ==
    /\ ~Running(t)
    /\ ThreadStep(t, [handler |-> h, pc |-> 1, held |-> {}])

\* KeAcquireSpinLock, CsqAcquireLock: the thread spins until the lock is free.
AcquireStep(t) ==
    /\ NextCall(t).op = "acquire"
    /\ \A u \in Threads : NextCall(t).arg \notin threads[u].held
    /\ ThreadStep(t, [threads[t] EXCEPT !.pc = @ + 1, !.held = @ \cup {NextCall(t).arg}])

ReleaseStep(t) ==
    /\ NextCall(t).op = "release"
    /\ ThreadStep(t, [threads[t] EXCEPT !.pc = @ + 1, !.held = @ \ {NextCall(t).arg}])

\* A call of the bus or of the kernel that returns without waiting.
CallStep(t) ==
    /\ NextCall(t).op = "call"
    /\ ThreadStep(t, [threads[t] EXCEPT !.pc = @ + 1])

\* KeFlushQueuedDpcs: returns once no DPC is running.
WaitStep(t) ==
    /\ NextCall(t).op = "wait"
    /\ \A u \in Threads : threads[u].handler # "EvtchnNotificationDpc"
    /\ ThreadStep(t, [threads[t] EXCEPT !.pc = @ + 1])

ReturnStep(t) ==
    /\ Returning(t)
    /\ ThreadStep(t, IdleThread)

NextLocks ==
    \/ \E t \in Threads, h \in Handlers : Enter(t, h)
    \/ \E t \in Threads : AcquireStep(t)
    \/ \E t \in Threads : ReleaseStep(t)
    \/ \E t \in Threads : CallStep(t)
    \/ \E t \in Threads : WaitStep(t)
    \/ \E t \in Threads : ReturnStep(t)

SpecLocks == Init /\ [][NextLocks]_vars

\* ------------------------------------------------------------- accounting
\* What a request holds, computed from its log.  Before the request is sent the
\* log is empty and every count is 0: that is the baseline.
Resources == {"Context", "Grants", "KernelVa", "Mdl", "UserVa"}

\* 1 while page Page of the request is shared with the foreign domain.
Shared(log, Page) == Count(log, Ev("Permit", Page)) - Count(log, Ev("Revoke", Page))

RECURSIVE SharedPages(_, _)
SharedPages(log, NumberPages) ==
    IF NumberPages = 0 THEN 0
    ELSE Shared(log, NumberPages - 1) + SharedPages(log, NumberPages - 1)

RECURSIVE SumLive(_, _)
SumLive(log, rs) ==
    IF rs = {} THEN 0
    ELSE LET r == CHOOSE x \in rs : TRUE IN Live(log, r) + SumLive(log, rs \ {r})

Allocations(log) == SumLive(log, Resources)

\* Foreign mappings made on the bus and not yet undone.
Mapped(log) == Count(log, Ev("Map", 0)) - Count(log, Ev("Unmap", 0))

\* IRP i is a grant request that IoctlGnttabRevokeForeignAccess completed.
RevokedGrant(i) ==
    /\ irps[i].Type = XENIFACE_CONTEXT_GRANT
    /\ irps[i].pc = "done"
    /\ irps[i].by = "Revoke"

\* ------------------------------------------------------------------ claims
\* C1: after PermitForeignAccess parked a grant of n pages and
\* RevokeForeignAccess for the same client and request id succeeded, all n pages
\* were shared and none is shared any more, and every allocation made for the
\* grant (context, grant array, page buffer, MDL, user mapping) is released:
\* the shared-page count and the allocation count are back at the baseline 0.
C1_PermitRevokeBaseline ==
    \A i \in Irps :
        RevokedGrant(i) =>
            /\ \A Page \in 0..(irps[i].NumberPages - 1) :
                   /\ Count(irps[i].log, Ev("Permit", Page)) = 1
                   /\ Shared(irps[i].log, Page) = 0
            /\ SharedPages(irps[i].log, irps[i].NumberPages) = 0
            /\ \A r \in Resources :
                   /\ Count(irps[i].log, Ev("Alloc", r)) = 1
                   /\ Live(irps[i].log, r) = 0
            /\ Allocations(irps[i].log) = 0

\* A grant of MaxPages pages was parked, the Permit returned STATUS_PENDING and
\* the Revoke returned success.
C1_Witness ==
    \E i \in Irps :
        /\ RevokedGrant(i)
        /\ irps[i].NumberPages = MaxPages
        /\ ~irps[i].tail /\ ~irps[i].lateWrite
        /\ ret.op = "Revoke" /\ ret.status = STATUS_SUCCESS
        /\ ret.Process = irps[i].Process /\ ret.RequestId = irps[i].RequestId

C3_QueuedIsConstructed ==
    \A i \in Irps :
        InQueue(i) =>
            /\ irps[i].pc = "queued"
            /\ irps[i].NumberPages >= 1
            /\ Live(irps[i].log, "Context") = 1
            /\ Live(irps[i].log, "KernelVa") = 1
            /\ Live(irps[i].log, "Mdl") = 1
            /\ Live(irps[i].log, "UserVa") = 1
            /\ irps[i].Type = XENIFACE_CONTEXT_GRANT =>
                   /\ Live(irps[i].log, "Grants") = 1
                   /\ \A Page \in 0..(irps[i].NumberPages - 1) :
                          Shared(irps[i].log, Page) = 1
            /\ irps[i].Type = XENIFACE_CONTEXT_MAP => Mapped(irps[i].log) = 1

\* A grant of MaxPages pages and a map are both parked.
C3_Witness ==
    \E i, j \in Irps :
        /\ InQueue(i) /\ irps[i].Type = XENIFACE_CONTEXT_GRANT
        /\ irps[i].NumberPages = MaxPages
        /\ SharedPages(irps[i].log, MaxPages) = MaxPages
        /\ InQueue(j) /\ irps[j].Type = XENIFACE_CONTEXT_MAP

\* C4: when cancellation of a parked request races with the explicit Revoke
\* (Unmap) for the same client, request id and kind, exactly one of them unlinks
\* the IRP and tears the context down: no context is freed twice, no IRP is
\* completed twice, and an IRP that is completed is no longer in the queue.  The
\* Revoke (Unmap) that finds no entry with its id in the queue returns
\* STATUS_NOT_FOUND and changes neither a request nor the queue; cancellation
\* acts only on an IRP that is still in the queue.
C4_TornDownOnce ==
    \A i \in Irps :
        /\ Count(irps[i].log, Ev("Free", "Context")) <= 1
        /\ Count(irps[i].log, Ev("Free", "UserVa")) <= 1
        /\ Len(irps[i].completions) <= 1
        /\ irps[i].pc \in {"removed", "cancelled", "completing", "done"} => ~InQueue(i)

C4_LoserSeesNotFound ==
    /\ \A p \in Procs, In \in RaceQueries :
           (/\ IoctlGnttabRevokeForeignAccess(p, In)
            /\ CsqPeekNextIrp(MkId(p, In.RequestId, XENIFACE_CONTEXT_GRANT)) = 0)
              => /\ ret'.op = "Revoke" /\ ret'.status = STATUS_NOT_FOUND
                 /\ UNCHANGED <<irps, IrpQueue>>
    /\ \A p \in Procs, In \in RaceQueries :
           (/\ IoctlGnttabUnmapForeignPages(p, In)
            /\ CsqPeekNextIrp(MkId(p, In.RequestId, XENIFACE_CONTEXT_MAP)) = 0)
              => /\ ret'.op = "Unmap" /\ ret'.status = STATUS_NOT_FOUND
                 /\ UNCHANGED <<irps, IrpQueue>>
    /\ \A i \in Irps : CancelIrp(i) => irps[i].pc = "queued"

C4_CancelRevokeRace == [](C4_TornDownOnce) /\ [][C4_LoserSeesNotFound]_vars

\* Cancellation won: the only request sent was parked and then unlinked by
\* cancellation, and the Revoke for its id returned STATUS_NOT_FOUND.
C4_Witness ==
    \E i \in Irps :
        /\ irps[i].Type = XENIFACE_CONTEXT_GRANT
        /\ irps[i].pc = "cancelled"
        /\ \A j \in Irps \ {i} : irps[j].pc = "idle"
        /\ ret.op = "Revoke" /\ ret.status = STATUS_NOT_FOUND
        /\ ret.Process = irps[i].Process /\ ret.RequestId = irps[i].RequestId

InWatchList(w) == \E n \in 1..Len(StoreWatchList) : StoreWatchList[n] = w

InEvtchnLists(c) ==
    \/ \E n \in 1..Len(EvtchnList) : EvtchnList[n] = c
    \/ \E F \in FileObjects :
           \E n \in 1..Len(cleanup[F].ToFree) : cleanup[F].ToFree[n] = c

\* C6: XenIfaceCleanup tears down each watch and each event channel of its
\* client exactly once, wherever they are in the two lists: when it has
\* returned, each of them has had one XENBUS_STORE(WatchRemove) (one
\* XENBUS_EVTCHN(Close)), is freed and is in no list, and the contexts of a
\* client that has not closed its handle are untouched and still listed.  No
\* context is ever torn down twice.  A second XenIfaceCleanup for the same
\* client changes no context and no list, hands nothing to EvtchnFree and so
\* makes no bus call.
C6_EachOnce ==
    /\ \A w \in Watches :
           /\ watches[w].removes <= 1
           /\ watches[w].eventRef \in {0, 1}
           /\ watches[w].mem = "freed" => watches[w].removes = 1 /\ ~InWatchList(w)
           /\ watches[w].mem = "alloc" => watches[w].removes = 0 /\ InWatchList(w)
    /\ \A c \in Chans :
           /\ chans[c].closes <= 1
           /\ chans[c].eventRef \in {0, 1}
           /\ chans[c].mem = "freed" => chans[c].closes = 1 /\ ~InEvtchnLists(c)
    /\ \A F \in FileObjects :
           /\ cleanup[F].pc = "done" =>
                  /\ \A w \in Watches : watches[w].by = F =>
                         watches[w].mem = "freed" /\ watches[w].removes = 1
                  /\ \A c \in Chans : chans[c].by = F =>
                         chans[c].mem = "freed" /\ chans[c].closes = 1
           /\ cleanup[F].calls = 0 =>
                  /\ \A w \in Watches : watches[w].by = F =>
                         watches[w].mem = "alloc" /\ watches[w].watch = "added"
                  /\ \A c \in Chans : chans[c].by = F =>
                         chans[c].mem = "alloc" /\ chans[c].bus = "open" /\ InEvtchnLists(c)

C6_SecondIsNoOp ==
    \A F \in FileObjects :
        (XenIfaceCleanup(F) /\ cleanup[F].calls >= 1)
            => /\ UNCHANGED <<watches, StoreWatchList, chans, EvtchnList>>
               /\ cleanup'[F].ToFree = <<>>

C6_CleanupOnce == [](C6_EachOnce) /\ [][C6_SecondIsNoOp]_vars

\* XenIfaceCleanup has returned twice for a client that owned two watches, with
\* a watch of another client between them in the list, and an event channel,
\* listed after a channel of the other client; the other client's watch and
\* channel are still there.
C6_Witness ==
    \E F, G \in FileObjects :
        /\ F # G
        /\ cleanup[F].pc = "done" /\ cleanup[F].calls = 2
        /\ cleanup[G].calls = 0
        /\ watches[1].by = F /\ watches[2].by = G /\ watches[3].by = F
        /\ watches[1].removes = 1 /\ watches[3].removes = 1
        /\ StoreWatchList = <<2>>
        /\ chans[1].by = G /\ chans[2].by = F /\ chans[2].closes = 1
        /\ EvtchnList = <<1>>

\* IRP i was refused by the queue as a duplicate after its context was fully
\* constructed (fail11), j being the parked request with the same id.
RefusedAsDuplicate(i) ==
    /\ irps[i].pc = "done"
    /\ irps[i].completions = <<STATUS_INVALID_PARAMETER>>
    /\ Count(irps[i].log, Ev("Alloc", "UserVa")) = 1

\* C7: the queue never holds two entries with the same client, request id and
\* kind.  Of two concurrent requests with the same id that both passed the
\* FindGnttabIrp check, the one that finds the id parked at insertion is not
\* inserted and completes with STATUS_INVALID_PARAMETER and Information 0,
\* after its user mapping was unmapped in the client's address space, every
\* page it shared was revoked (its foreign mapping unmapped) and its MDL,
\* buffer, grant array and context were released.  A request is refused at
\* insertion only when its id is parked.
C7_NoDuplicateIds ==
    /\ \A i, j \in Irps :
           (i # j /\ InQueue(i) /\ InQueue(j)) => IdOf(irps[i]) # IdOf(irps[j])
    /\ \A n, m \in 1..Len(IrpQueue) : n # m => IrpQueue[n] # IrpQueue[m]
    /\ \A i \in Irps :
           RefusedAsDuplicate(i) =>
               /\ ~InQueue(i)
               /\ irps[i].Information = 0
               /\ Count(irps[i].log, Ev("UnmapIn", irps[i].Process)) = 1
               /\ SharedPages(irps[i].log, irps[i].NumberPages) = 0
               /\ \A Page \in 0..(irps[i].NumberPages - 1) :
                      irps[i].Type = XENIFACE_CONTEXT_GRANT =>
                          /\ Count(irps[i].log, Ev("Permit", Page)) = 1
                          /\ Count(irps[i].log, Ev("Revoke", Page)) = 1
               /\ Mapped(irps[i].log) = 0
               /\ \A r \in Resources : Live(irps[i].log, r) = 0

C7_RefusedOnlyIfParked ==
    \A i \in Irps :
        (PermitForeignAccess_Insert(i) \/ MapForeignPages_Insert(i))
            => (InQueue(i)' <=> CsqPeekNextIrp(IdOf(irps[i])) = 0)

RefusedByFirstCheck(i) ==
    /\ irps[i].pc = "done"
    /\ irps[i].completions = <<STATUS_INVALID_PARAMETER>>
    /\ irps[i].log = <<Ev("Alloc", "Context"), Ev("Free", "Context")>>

\* C8: a PermitForeignAccess (well-formed, its context allocated) from a client
\* that has a grant with the same request id parked completes with
\* STATUS_INVALID_PARAMETER and Information 0, shares no page and keeps no
\* allocation, and changes neither the queue nor any other request, the parked
\* grant included.
C8_SecondPermitStep ==
    \A i \in Irps, p \in Procs, In \in RaceInputs :
        (/\ PermitForeignAccess_Validate(i, p, In, TRUE)
         /\ CsqPeekNextIrp(MkId(p, In.RequestId, XENIFACE_CONTEXT_GRANT)) # 0)
            => /\ irps'[i].pc = "done"
               /\ irps'[i].completions = <<STATUS_INVALID_PARAMETER>>
               /\ irps'[i].Information = 0
               /\ \A Page \in 0..(In.NumberPages - 1) :
                      Count(irps'[i].log, Ev("Permit", Page)) = 0
               /\ \A r \in Resources : Live(irps'[i].log, r) = 0
               /\ IrpQueue' = IrpQueue
               /\ \A j \in Irps \ {i} : irps'[j] = irps[j]
               /\ UNCHANGED <<ret, evtchnVars>>

C8_SecondPermitRefused == [][C8_SecondPermitStep]_vars

\* A grant is parked and a second request of the same client with the same
\* request id was refused by the first check.
C8_Witness ==
    \E i, j \in Irps :
        /\ i # j
        /\ InQueue(j) /\ irps[j].Type = XENIFACE_CONTEXT_GRANT
        /\ IdOf(irps[i]) = IdOf(irps[j])
        /\ RefusedByFirstCheck(i)
        /\ SharedPages(irps[j].log, MaxPages) = MaxPages

\* IRP i was unlinked by the cancel path and handed to CompleteGnttabIrp, which
\* has freed its context.
TornDownByCancel(i) ==
    /\ irps[i].by = "Cancel"
    /\ SharedPages(irps[i].log, MaxPages) = 0
    /\ Mapped(irps[i].log) = 0
    /\ Allocations(irps[i].log) = 0
    /\ Count(irps[i].log, Ev("Free", "Context")) = 1

\* C9: a parked grant or map request that is cancelled is first torn down by
\* CompleteGnttabIrp and only then completed, and it is completed with
\* STATUS_CANCELLED and Information 0, never with success.  Stated as the claim
\* states it: a cancelled request is not completed while its teardown is
\* outstanding, and once completed it was completed once, with
\* STATUS_CANCELLED and 0 bytes.
C9_CancelledCompletion ==
    \A i \in Irps :
        /\ irps[i].pc = "cancelled" => irps[i].completions = <<>>
        /\ (irps[i].by = "Cancel" /\ irps[i].pc = "done") =>
               /\ TornDownByCancel(i)
               /\ irps[i].completions = <<STATUS_CANCELLED>>
               /\ irps[i].Information = 0

\* C9, the part that holds in every interleaving: the teardown precedes the
\* completion, the request is completed once, with 0 bytes, and never with
\* success.
C9_TornDownThenNeverSuccess ==
    \A i \in Irps :
        /\ irps[i].pc = "cancelled" => irps[i].completions = <<>>
        /\ (irps[i].by = "Cancel" /\ irps[i].pc \in {"completing", "done"}) =>
               TornDownByCancel(i)
        /\ (irps[i].by = "Cancel" /\ irps[i].pc = "done") =>
               /\ Len(irps[i].completions) = 1
               /\ irps[i].completions[1] # STATUS_SUCCESS
               /\ irps[i].Information = 0

\* A cancelled map request was torn down by CompleteGnttabIrp and then
\* completed with the STATUS_PENDING that XenIfaceIoctl stored into it between
\* CompleteGnttabIrp's store of STATUS_CANCELLED and its IoCompleteRequest.
C9_Witness ==
    \E i \in Irps :
        /\ irps[i].Type = XENIFACE_CONTEXT_MAP
        /\ irps[i].pc = "done"
        /\ TornDownByCancel(i)
        /\ irps[i].completions = <<STATUS_PENDING>>

\* Client p has a grant with request id r pending: parked in the queue.
PendingGrant(p, r) ==
    \E i \in Irps : /\ InQueue(i)
                    /\ IdOf(irps[i]) = MkId(p, r, XENIFACE_CONTEXT_GRANT)

\* C10: IoctlGnttabGetGrantResult, called with an input of the right size for
\* a (client, request id) that has no pending grant (never submitted, failed
\* during construction, already revoked, cancelled, or pending only as a map or
\* for another client), returns STATUS_NOT_FOUND whatever the output length,
\* writes no output, reports 0 bytes and changes neither the requests, the
\* queue nor the channels and watches.  (A step of the handler for p and In
\* leaves its name, p and the request id of In in ret.)
C10_GetGrantResultStep ==
    ret'.op = "GetGrantResult" =>
    \A p \in Procs, In \in GetGrantResultInputs :
        (/\ In.InLen = SizeofGetGrantResultIn
         /\ ret'.Process = p /\ ret'.RequestId = In.RequestId
         /\ ~PendingGrant(p, In.RequestId)
         /\ IoctlGnttabGetGrantResult(p, In))
            => /\ ret'.op = "GetGrantResult"
               /\ ret'.status = STATUS_NOT_FOUND
               /\ ret'.Out = <<>> /\ ret'.Info = 0
               /\ UNCHANGED <<irps, IrpQueue, evtchnVars>>

C10_NotFoundWithoutPendingGrant == [][C10_GetGrantResultStep]_vars

\* A grant was revoked (the Revoke returned success when it completed the
\* request) and a later GetGrantResult of the same client for its request id
\* returned STATUS_NOT_FOUND with no output.
C10_Witness ==
    \E i \in Irps :
        /\ RevokedGrant(i)
        /\ ret.op = "GetGrantResult" /\ ret.status = STATUS_NOT_FOUND
        /\ ret.Process = irps[i].Process /\ ret.RequestId = irps[i].RequestId
        /\ ret.Out = <<>> /\ ret.Info = 0

\* IRP i is a map request that IoctlGnttabUnmapForeignPages completed.
UnmappedMap(i) ==
    /\ irps[i].Type = XENIFACE_CONTEXT_MAP
    /\ irps[i].pc = "done"
    /\ irps[i].by = "Unmap"

\* Client p has a map with request id r pending: parked in the queue.
PendingMap(p, r) ==
    \E i \in Irps : /\ InQueue(i)
                    /\ IdOf(irps[i]) = MkId(p, r, XENIFACE_CONTEXT_MAP)

\* C11, grants: every GetGrantResult with an exactly sized output buffer for a
\* parked grant i succeeds and returns the user address of i (not NULL) and
\* the NumberPages references of i, pairwise distinct, a value that depends on
\* i alone and so is the same at every repetition; the step leaves the
\* requests and the queue as they were.  Once Revoke has completed the grant
\* and no grant with the id is parked, the same query returns STATUS_NOT_FOUND.
C11_GrantQueryStep ==
    ret'.op = "GetGrantResult" =>
    \A p \in Procs, In \in GetGrantResultInputs :
        (/\ In.InLen = SizeofGetGrantResultIn
         /\ ret'.Process = p /\ ret'.RequestId = In.RequestId
         /\ IoctlGnttabGetGrantResult(p, In))
            => \A i \in Irps :
                 (IdOf(irps[i]) = MkId(p, In.RequestId, XENIFACE_CONTEXT_GRANT)) =>
                   /\ (/\ InQueue(i)
                       /\ In.OutLen = SizeofGetGrantResultOut
                                         + SizeofUlong * irps[i].NumberPages)
                        => /\ ret'.status = STATUS_SUCCESS
                           /\ Len(ret'.Out) = irps[i].NumberPages + 1
                           /\ ret'.Out[1] = UserVa(i) /\ ret'.Out[1] # 0
                           /\ \A Page \in 0..(irps[i].NumberPages - 1) :
                                  ret'.Out[Page + 2] = GetReference(i, Page)
                           /\ \A P, Q \in 0..(irps[i].NumberPages - 1) :
                                  P # Q => ret'.Out[P + 2] # ret'.Out[Q + 2]
                           /\ ret'.Info = In.OutLen
                           /\ UNCHANGED <<irps, IrpQueue>>
                   /\ (RevokedGrant(i) /\ ~PendingGrant(p, In.RequestId))
                        => /\ ret'.status = STATUS_NOT_FOUND
                           /\ ret'.Out = <<>>

\* C11, maps: the same for GetMapResult, which returns the user address only,
\* and UnmapForeignPages.
C11_MapQueryStep ==
    ret'.op = "GetMapResult" =>
    \A p \in Procs, In \in GetMapResultInputs :
        (/\ In.InLen = SizeofGetMapResultIn /\ In.OutLen = SizeofGetMapResultOut
         /\ ret'.Process = p /\ ret'.RequestId = In.RequestId
         /\ IoctlGnttabGetMapResult(p, In))
            => \A i \in Irps :
                 (IdOf(irps[i]) = MkId(p, In.RequestId, XENIFACE_CONTEXT_MAP)) =>
                   /\ InQueue(i)
                        => /\ ret'.status = STATUS_SUCCESS
                           /\ ret'.Out = <<UserVa(i)>> /\ ret'.Out[1] # 0
                           /\ ret'.Info = In.OutLen
                           /\ UNCHANGED <<irps, IrpQueue>>
                   /\ (UnmappedMap(i) /\ ~PendingMap(p, In.RequestId))
                        => /\ ret'.status = STATUS_NOT_FOUND
                           /\ ret'.Out = <<>>

C11_QueriesWhilePending == [][C11_GrantQueryStep /\ C11_MapQueryStep]_vars

\* A grant of MaxPages pages is parked, its Permit has returned, and the last
\* handler to return was a GetGrantResult for it that succeeded with the user
\* address and MaxPages references.
C11_Witness ==
    \E i \in Irps :
        /\ InQueue(i) /\ irps[i].Type = XENIFACE_CONTEXT_GRANT
        /\ irps[i].NumberPages = MaxPages /\ ~irps[i].tail
        /\ ret.op = "GetGrantResult" /\ ret.status = STATUS_SUCCESS
        /\ ret.Process = irps[i].Process /\ ret.RequestId = irps[i].RequestId
        /\ ret.Out = <<UserVa(i)>> \o References(i, 0, MaxPages)

\* The request passed validation, the allocator gave the context and the id
\* is not pending: the handler goes on to construct the context.
Accepted(rec) == rec.pc = "checked"

\* The request was refused with invalid-parameter before anything was
\* allocated.
RefusedByValidation(rec) ==
    /\ rec.pc = "done"
    /\ rec.completions = <<STATUS_INVALID_PARAMETER>>
    /\ rec.log = <<>>

\* notifyOffset < pageCount * pageSize over the integers (the product itself
\* does not fit 32 bits at pageCount 2^20).
OffsetInRange(In) == In.NotifyOffset \div PAGE_SIZE < In.NumberPages

\* The input is valid apart from its page count: the lengths are right and
\* the offset, if the offset-poke flag is set, lies inside the pages.
OtherwiseValid(In, InLen) ==
    /\ In.InLen = InLen /\ In.OutLen = 0
    /\ HasFlag(In.Flags, XENIFACE_GNTTAB_USE_NOTIFY_OFFSET) => OffsetInRange(In)

\* C12, as stated: with page count 0 or 2^20 + 1 PermitForeignAccess and
\* MapForeignPages fail with invalid-parameter, and with page count exactly
\* 2^20, the input otherwise valid, the allocator cooperating and the id not
\* pending, the request is not refused: it goes on to share or map its pages.
C12_PermitBoundaryStep ==
    \A i \in Irps, p \in Procs, In \in PermitInputs, okContext \in BOOLEAN :
        (/\ In.InLen = SizeofPermitIn /\ In.OutLen = 0
         /\ PermitForeignAccess_Validate(i, p, In, okContext))
            => /\ In.NumberPages \in {0, MaxNumberPages + 1}
                    => RefusedByValidation(irps'[i])
               /\ (/\ In.NumberPages = MaxNumberPages
                   /\ OtherwiseValid(In, SizeofPermitIn)
                   /\ okContext
                   /\ FindGnttabIrp(MkId(p, In.RequestId, XENIFACE_CONTEXT_GRANT)) = 0)
                    => Accepted(irps'[i])

C12_MapBoundaryStep ==
    \A i \in Irps, p \in Procs, In \in MapInputs, okContext \in BOOLEAN :
        (/\ In.InLen = SizeofMapIn + SizeofUlong * In.NumberPages /\ In.OutLen = 0
         /\ MapForeignPages_Validate(i, p, In, okContext))
            => /\ In.NumberPages \in {0, MaxNumberPages + 1}
                    => RefusedByValidation(irps'[i])
               /\ (/\ In.NumberPages = MaxNumberPages
                   /\ OtherwiseValid(In, SizeofMapIn + SizeofUlong * In.NumberPages)
                   /\ okContext
                   /\ FindGnttabIrp(MkId(p, In.RequestId, XENIFACE_CONTEXT_MAP)) = 0)
                    => Accepted(irps'[i])

C12_PageCountBoundary == [][C12_PermitBoundaryStep /\ C12_MapBoundaryStep]_vars

\* C12, the part that holds: a request with page count 0 or above 2^20 is
\* refused with invalid-parameter before anything is allocated (a request that
\* was refused with nothing allocated and another status had a wrong length
\* or no memory for its context).
C12_OutOfRangeRefused ==
    \A i \in Irps :
        (/\ irps[i].pc \notin {"idle"}
         /\ (irps[i].NumberPages = 0 \/ irps[i].NumberPages > MaxNumberPages))
            => /\ irps[i].pc = "done"
               /\ irps[i].log = <<>>
               /\ irps[i].completions \in {<<STATUS_INVALID_PARAMETER>>,
                                           <<STATUS_INVALID_BUFFER_SIZE>>}

\* A request for exactly 2^20 pages with the offset-poke flag and offset 0 was
\* refused with invalid-parameter: 2^20 * PAGE_SIZE is 0 in 32 bits, and no
\* offset is below 0.
C12_Witness ==
    \E i \in Irps :
        /\ irps[i].NumberPages = MaxNumberPages
        /\ HasFlag(irps[i].Flags, XENIFACE_GNTTAB_USE_NOTIFY_OFFSET)
        /\ irps[i].NotifyOffset = 0
        /\ RefusedByValidation(irps[i])

\* The page count is outside [1, 2^20], or the offset-poke flag is set and the
\* offset is not below pageCount * pageSize.
BreaksConstraint(In) ==
    \/ In.NumberPages = 0
    \/ In.NumberPages > MaxNumberPages
    \/ HasFlag(In.Flags, XENIFACE_GNTTAB_USE_NOTIFY_OFFSET) /\ ~OffsetInRange(In)

\* What validation does with input In of a request in slot i, for page counts
\* up to top: a request that breaks a constraint is refused with
\* invalid-parameter, nothing allocated, no bus call, no mapping (its log is
\* empty) and the queue untouched; a request with the offset-poke flag whose
\* offset is below pageCount * pageSize is not refused by validation.
ValidationOutcome(i, In, top) ==
    /\ BreaksConstraint(In)
         => /\ RefusedByValidation(irps'[i])
            /\ UNCHANGED <<IrpQueue, evtchnVars>>
    /\ (/\ In.NumberPages \in 1..top
        /\ HasFlag(In.Flags, XENIFACE_GNTTAB_USE_NOTIFY_OFFSET)
        /\ OffsetInRange(In))
         => ~RefusedByValidation(irps'[i])

\* Input In is what the request now in rec was sent with.
SentWith(rec, In) ==
    /\ In.NumberPages = rec.NumberPages /\ In.Flags = rec.Flags
    /\ In.NotifyOffset = rec.NotifyOffset /\ In.NotifyPort = rec.NotifyPort
    /\ In.RequestId = rec.RequestId

\* A step that takes slot i from idle is the validation of a new request.
ValidationStep(top) ==
    \A i \in Irps :
        (irps[i].pc = "idle" /\ irps'[i].pc # "idle") =>
            /\ \A In \in {x \in PermitInputs : SentWith(irps'[i], x)}, okContext \in BOOLEAN :
                   (/\ In.InLen = SizeofPermitIn /\ In.OutLen = 0
                    /\ PermitForeignAccess_Validate(i, irps'[i].Process, In, okContext))
                       => ValidationOutcome(i, In, top)
            /\ \A In \in {x \in MapInputs : SentWith(irps'[i], x)}, okContext \in BOOLEAN :
                   (/\ In.InLen >= SizeofMapIn /\ In.OutLen = 0
                    /\ MapForeignPages_Validate(i, irps'[i].Process, In, okContext))
                       => ValidationOutcome(i, In, top)

\* C13, as stated: PermitForeignAccess and MapForeignPages with a page count
\* outside [1, 2^20], or with the offset-poke flag and notifyOffset >=
\* pageCount * pageSize, return invalid-parameter without allocating, calling
\* the bus, mapping or touching the queue; with the flag and notifyOffset <
\* pageCount * pageSize, for every page count in [1, 2^20], the request is
\* not rejected by validation.
C13_ValidationRejectsExactly == [][ValidationStep(MaxNumberPages)]_vars

\* C13, the part that holds: the same with the page counts of the second half
\* below 2^20, where pageCount * pageSize fits 32 bits.
C13_ValidationBelowBoundary == [][ValidationStep(MaxNumberPages - 1)]_vars

\* A map request for 2^20 pages with the offset-poke flag and an offset inside
\* the pages was refused by validation.
C13_Witness ==
    \E i \in Irps :
        /\ irps[i].Type = XENIFACE_CONTEXT_MAP
        /\ irps[i].NumberPages = MaxNumberPages
        /\ HasFlag(irps[i].Flags, XENIFACE_GNTTAB_USE_NOTIFY_OFFSET)
        /\ irps[i].NotifyOffset \div PAGE_SIZE < irps[i].NumberPages
        /\ RefusedByValidation(irps[i])

\* C14: IoctlGnttabGetGrantResult for a parked grant with an output length
\* other than header + pageCount * refSize, smaller or larger, returns
\* invalid-size, writes no output and reports 0 bytes, returns with the queue
\* lock released and leaves the requests and the queue as they were: the grant
\* is still parked, so that in the state it leaves an exactly sized query
\* succeeds and a Revoke finds the grant.
C14_WrongSizeStep ==
    \A p \in Procs \cap {ret'.Process},
       In \in {x \in GetGrantResultInputs : x.RequestId = ret'.RequestId},
       i \in Irps :
        (/\ In.InLen = SizeofGetGrantResultIn
         /\ InQueue(i)
         /\ IdOf(irps[i]) = MkId(p, In.RequestId, XENIFACE_CONTEXT_GRANT)
         /\ In.OutLen # SizeofGetGrantResultOut + SizeofUlong * irps[i].NumberPages
         /\ IoctlGnttabGetGrantResult(p, In))
            => /\ ret'.status = STATUS_INVALID_BUFFER_SIZE
               /\ ret'.Out = <<>> /\ ret'.Info = 0
               /\ ret'.Held = 0
               /\ UNCHANGED <<irps, IrpQueue, evtchnVars>>
               /\ InQueue(i)'
               /\ GetGrantResult(p, QueryIn(SizeofGetGrantResultIn,
                                            SizeofGetGrantResultOut
                                                + SizeofUlong * irps[i].NumberPages,
                                            In.RequestId))'.status = STATUS_SUCCESS
               /\ RevokeRemoves(p, QueryIn(SizeofRevokeIn, 0, In.RequestId))' = i

C14_WrongOutputSizeRefused == [][C14_WrongSizeStep]_vars

\* A grant of one page is parked and the last handler to return was a
\* GetGrantResult for it that was refused with invalid-size at the test of
\* the output length.
C14_Witness ==
    \E i \in Irps :
        /\ InQueue(i) /\ irps[i].Type = XENIFACE_CONTEXT_GRANT
        /\ irps[i].NumberPages = 1
        /\ ret.op = "GetGrantResult" /\ ret.status = STATUS_INVALID_BUFFER_SIZE
        /\ ret.Process = irps[i].Process /\ ret.RequestId = irps[i].RequestId
        /\ ret.Exit = "fail3"
        /\ ret.Out = <<>> /\ ret.Held = 0

\* C15: while InterfacesAcquired is FALSE every request that arrives, of a
\* known or an unknown code, is completed with device-not-ready and nothing
\* else happens: no step changes the queue, a channel, a watch, a processor
\* or a request other than the one refused, and the refused request has
\* called neither the allocator nor the bus.  Once InterfacesAcquired is TRUE
\* no request gets device-not-ready: it is decoded, and a code that is none of
\* the cases gets the status of the default case.
C15_GateStep ==
    /\ InterfacesAcquired = FALSE
         => /\ UNCHANGED <<IrpQueue, evtchnVars>>
            /\ \A i \in Irps :
                   irps'[i] # irps[i]
                     => /\ irps[i].pc = "idle"
                        /\ irps'[i].pc = "done"
                        /\ irps'[i].completions = <<STATUS_DEVICE_NOT_READY>>
                        /\ irps'[i].log = <<>>
                        /\ ret'.status = STATUS_DEVICE_NOT_READY
                        /\ ret'.Out = <<>>
            /\ ret' # ret => ret'.status = STATUS_DEVICE_NOT_READY
    /\ InterfacesAcquired = TRUE
         => /\ \A i \in Irps :
                   irps'[i].completions # irps[i].completions
                     => irps'[i].completions[Len(irps'[i].completions)]
                            # STATUS_DEVICE_NOT_READY
            /\ ret' # ret => ret'.status # STATUS_DEVICE_NOT_READY
            /\ \A i \in Irps, p \in Procs :
                   XenIfaceIoctl_Default(i, p)
                     => irps'[i].completions = <<STATUS_INVALID_DEVICE_REQUEST>>

C15_DeviceNotReadyGate == [][C15_GateStep]_vars

\* The interfaces are not acquired and two requests were refused with
\* device-not-ready and completed, the last one of an unknown code.
C15_Witness ==
    /\ InterfacesAcquired = FALSE
    /\ \A i \in Irps : /\ irps[i].pc = "done"
                       /\ irps[i].completions = <<STATUS_DEVICE_NOT_READY>>
    /\ ret.op = UnknownIoControlCode /\ ret.status = STATUS_DEVICE_NOT_READY
    /\ IrpQueue = <<>>

\* C16: a request of a fixed-size kind with an input or an output length other
\* than the one the kind fixes is refused with invalid-size before anything is
\* looked up, removed or torn down: the answer is STATUS_INVALID_BUFFER_SIZE
\* with no output, and the requests and the queue are as they were.  Stated
\* here for the four fixed-size grant-table kinds, with output length 0 for
\* the two that return nothing.
C16_Refused ==
    /\ ret'.status = STATUS_INVALID_BUFFER_SIZE
    /\ ret'.Out = <<>>
    /\ UNCHANGED <<irps, IrpQueue>>

\* Every step of handler Handler with an input of a wrong size is refused.
\* A step of the handler either answers (ret names the handler, the client
\* and the id) or takes a request out of the queue.
C16_Step(op, Inputs, WrongSize(_), Handler(_, _)) ==
    /\ (ret' # ret /\ ret'.op = op)
         => \A In \in Inputs :
               (/\ WrongSize(In)
                /\ In.RequestId = ret'.RequestId
                /\ Handler(ret'.Process, In))
                 => C16_Refused
    /\ (ret' = ret /\ IrpQueue' # IrpQueue)
         => \A p \in Procs, In \in Inputs :
               WrongSize(In) /\ Handler(p, In) => C16_Refused

C16_GetGrantResultWrong(In) == In.InLen # SizeofGetGrantResultIn
C16_GetMapResultWrong(In) ==
    In.InLen # SizeofGetMapResultIn \/ In.OutLen # SizeofGetMapResultOut

C16_GetGrantResultStep ==
    C16_Step("GetGrantResult", GetGrantResultInputs, C16_GetGrantResultWrong,
             IoctlGnttabGetGrantResult)

C16_GetMapResultStep ==
    C16_Step("GetMapResult", GetMapResultInputs, C16_GetMapResultWrong,
             IoctlGnttabGetMapResult)

C16_RevokeStep(WrongSize(_)) ==
    C16_Step("Revoke", RevokeInputs, WrongSize, IoctlGnttabRevokeForeignAccess)

C16_UnmapStep(WrongSize(_)) ==
    C16_Step("Unmap", UnmapInputs, WrongSize, IoctlGnttabUnmapForeignPages)

C16_RevokeWrongAsClaimed(In) == In.InLen # SizeofRevokeIn \/ In.OutLen # 0
C16_UnmapWrongAsClaimed(In) == In.InLen # SizeofUnmapIn \/ In.OutLen # 0
C16_RevokeWrongAsTested(In) == In.InLen # SizeofRevokeIn
C16_UnmapWrongAsTested(In) == In.InLen # SizeofUnmapIn /\ In.OutLen # 0

C16_WrongSizeRefused ==
    [][/\ C16_GetGrantResultStep
       /\ C16_GetMapResultStep
       /\ C16_RevokeStep(C16_RevokeWrongAsClaimed)
       /\ C16_UnmapStep(C16_UnmapWrongAsClaimed)]_vars

\* What the size tests of the code do refuse before the lookup: a wrong input
\* length of GetGrantResult and of Revoke, a wrong input or output length of
\* GetMapResult, and an Unmap whose two lengths are both wrong.
C16_TestedSizesRefused ==
    [][/\ C16_GetGrantResultStep
       /\ C16_GetMapResultStep
       /\ C16_RevokeStep(C16_RevokeWrongAsTested)
       /\ C16_UnmapStep(C16_UnmapWrongAsTested)]_vars

\* A map is pending and an Unmap of its owner for its id was refused for its
\* size.
C16_Witness ==
    /\ ret.op = "Unmap" /\ ret.status = STATUS_INVALID_BUFFER_SIZE
    /\ \E i \in Irps : /\ InQueue(i)
                       /\ irps[i].Type = XENIFACE_CONTEXT_MAP
                       /\ irps[i].Process = ret.Process
                       /\ irps[i].RequestId = ret.RequestId

\* C17: every status XenIfaceIoctl returns is one of success, pending,
\* invalid-parameter, invalid-size, resource-exhausted, not-found,
\* unsupported-request and device-not-ready: the status of every request
\* completed at the done label, and of every answer of a handler, is in that
\* set, on the failure paths of the construction too.
C17_ExitSurface ==
    {STATUS_SUCCESS, STATUS_PENDING, STATUS_INVALID_PARAMETER,
     STATUS_INVALID_BUFFER_SIZE, STATUS_NO_MEMORY, STATUS_NOT_FOUND,
     STATUS_INVALID_DEVICE_REQUEST, STATUS_DEVICE_NOT_READY}

\* The request was completed by XenIfaceIoctl itself, not by a revoke, an
\* unmap or a cancellation of the pending request.
C17_CompletedAtDone(i) == irps[i].pc = "done" /\ irps[i].by = "none"

C17_StatusInExitSurface ==
    /\ \A i \in Irps : C17_CompletedAtDone(i) => irps[i].Status \in C17_ExitSurface
    /\ ret.status # "none" => ret.status \in C17_ExitSurface

\* What holds of the code: a status outside the set is one a collaborator
\* handed to a construction that failed and was undone (the error of the bus,
\* the exception code of the mapping, or STATUS_UNSUCCESSFUL for a mapping
\* that returned no address); every other path stays inside the set, and an
\* unknown request code gets STATUS_INVALID_DEVICE_REQUEST once the interfaces
\* are acquired.
C17_StatusesOfTheCode ==
    /\ \A i \in Irps :
          C17_CompletedAtDone(i)
            => \/ irps[i].Status \in C17_ExitSurface \ {STATUS_PENDING}
               \/ /\ irps[i].Status \in {STATUS_BUS_ERROR, STATUS_ACCESS_VIOLATION,
                                          STATUS_UNSUCCESSFUL}
                  /\ \E k \in 1..Len(irps[i].log) :
                        irps[i].log[k] = Ev("Free", "Context")
    /\ ret.status # "none" => ret.status \in C17_ExitSurface \ {STATUS_PENDING}
    /\ ret.op = UnknownIoControlCode
         => ret.status \in {STATUS_DEVICE_NOT_READY, STATUS_INVALID_DEVICE_REQUEST}

\* A request whose user mapping returned no address was completed with
\* STATUS_UNSUCCESSFUL, and an unknown code was answered after the interfaces
\* were acquired.
C17_Witness ==
    /\ \E i \in Irps : C17_CompletedAtDone(i) /\ irps[i].Status = STATUS_UNSUCCESSFUL
    /\ ret.op = UnknownIoControlCode /\ ret.status = STATUS_INVALID_DEVICE_REQUEST

\* C18: on every exit path of a grant (a construction that fails, a Revoke, a
\* cancellation) the pages are revoked in strict reverse order: the pages
\* revoked so far, in the order of the calls, are j-1, j-2, ..., 0 for the
\* number j of pages that were shared.
C18_IsRevoke(e) == e[1] = "Revoke"
C18_IsPermit(e) == e[1] = "Permit"

C18_RevokedPages(log) ==
    LET calls == SelectSeq(log, C18_IsRevoke) IN [k \in 1..Len(calls) |-> calls[k][2]]

C18_SharedPages(log) == Len(SelectSeq(log, C18_IsPermit))

C18_Descending(pages, j) ==
    /\ Len(pages) <= j
    /\ \A k \in 1..Len(pages) : pages[k] = j - k

C18_Ascending(pages, j) ==
    /\ Len(pages) <= j
    /\ \A k \in 1..Len(pages) : pages[k] = k - 1

C18_Grant(i) == irps[i].pc # "idle" /\ irps[i].Type = XENIFACE_CONTEXT_GRANT

C18_RevokedInReverse ==
    \A i \in Irps :
        C18_Grant(i)
          => C18_Descending(C18_RevokedPages(irps[i].log), C18_SharedPages(irps[i].log))

\* What holds of the code: a construction that fails revokes the pages it
\* shared in reverse order; GnttabFreeGrant, which Revoke and the cancellation
\* run, revokes all pages in ascending order.  On either path each shared page
\* is revoked once.
C18_RevokedInOrderOfPath ==
    \A i \in Irps :
        C18_Grant(i)
          => LET pages == C18_RevokedPages(irps[i].log)
                 j == C18_SharedPages(irps[i].log)
             IN  /\ irps[i].by = "none" => C18_Descending(pages, j)
                 /\ irps[i].by # "none"
                      => /\ C18_Ascending(pages, j)
                         /\ Len(pages) = j /\ j = irps[i].NumberPages
                 /\ irps[i].pc = "done" /\ pages # <<>> => Len(pages) = j

\* A grant of more than one page was torn down by a Revoke, and its pages
\* were revoked from page 0 upwards.
C18_Witness ==
    \E i \in Irps :
        /\ C18_Grant(i) /\ irps[i].pc = "done" /\ irps[i].by = "Revoke"
        /\ irps[i].NumberPages > 1
        /\ C18_RevokedPages(irps[i].log)[1] = 0

\* A construction of more than one page failed after sharing them and revoked
\* them from the last page downwards.
C18_WitnessOfFailure ==
    \E i \in Irps :
        /\ C18_Grant(i) /\ irps[i].pc = "done" /\ irps[i].by = "none"
        /\ Len(C18_RevokedPages(irps[i].log)) > 1

\* C19: when the bus refuses to share page k of a grant, exactly the pages
\* 0..k-1, which were shared, are revoked, in the order k-1, ..., 0; page k
\* and the pages after it are neither shared nor revoked; the MDL, the
\* buffer, the grant array and the context are released, no user mapping was
\* made, nothing is put in the queue, and the request is completed with the
\* error the bus reported.
C19_Released(log, r) ==
    Count(log, Ev("Alloc", r)) = 1 /\ Count(log, Ev("Free", r)) = 1

C19_BusRefusesPage(i, k) ==
    /\ irps[i].pc = "checked" /\ irps'[i].pc = "done"
    /\ k < irps[i].NumberPages
    /\ PermitForeignAccess_Construct(i, <<"Page", k>>)

C19_UndoneUpTo(i, k) ==
    LET log == irps'[i].log IN
    /\ C18_RevokedPages(log) = [j \in 1..k |-> k - j]
    /\ \A Page \in 0..(irps[i].NumberPages - 1) :
          /\ Count(log, Ev("Permit", Page)) = (IF Page < k THEN 1 ELSE 0)
          /\ Count(log, Ev("Revoke", Page)) = (IF Page < k THEN 1 ELSE 0)
    /\ \A r \in {"Mdl", "KernelVa", "Grants", "Context"} : C19_Released(log, r)
    /\ Count(log, Ev("Alloc", "UserVa")) = 0
    /\ log[Len(log)] = Ev("Free", "Context")
    /\ IrpQueue' = IrpQueue /\ ~InQueue(i)'
    /\ irps'[i].Status = STATUS_BUS_ERROR
    /\ irps'[i].completions = <<STATUS_BUS_ERROR>>
    /\ irps'[i].Information = 0

C20_IsDo(e) == e[1] \in {"Alloc", "Permit", "Map", "MapIn"}

C20_UndoOp(op) ==
    CASE op = "Alloc" -> "Free" [] op = "Permit" -> "Revoke"
      [] op = "Map" -> "Unmap" [] op = "MapIn" -> "UnmapIn"

C20_Undoes(u, e) == C20_IsDo(e) /\ u[1] = C20_UndoOp(e[1]) /\ u[2] = e[2]

C20_Undone(log) ==
    \A k \in 1..Len(log) :
        IF C20_IsDo(log[k])
        THEN /\ Count(log, log[k]) = 1
             /\ Count(log, Ev(C20_UndoOp(log[k][1]), log[k][2])) = 1
        ELSE \E j \in 1..(k - 1) : C20_Undoes(log[k], log[j])

C20_ConstructionFails(i) ==
    /\ irps[i].pc \in {"idle", "checked", "built"}
    /\ irps'[i].pc = "done"

C20_AsBefore(i) ==
    /\ C20_Undone(irps'[i].log)
    /\ IrpQueue' = IrpQueue /\ ~InQueue(i)'
    /\ \A j \in Irps \ {i} : irps'[j] = irps[j]
    /\ UNCHANGED evtchnVars
    /\ irps'[i].Status \notin {STATUS_SUCCESS, STATUS_PENDING}
    /\ irps'[i].completions = <<irps'[i].Status>>
    /\ irps'[i].Information = 0

C20_WitnessBeforeUserVa ==
    \E j \in Irps :
        /\ C17_CompletedAtDone(j)
        /\ irps[j].Type = XENIFACE_CONTEXT_MAP
        /\ Count(irps[j].log, Ev("Unmap", 0)) = 1
        /\ Count(irps[j].log, Ev("Alloc", "UserVa")) = 0
        /\ Count(irps[j].log, Ev("UnmapIn", irps[j].Process)) = 0

\* C21: when EvtchnInterruptHandler is entered for a channel and finds it
\* active, then, unless the channel is closed, EvtchnNotificationDpc
\* eventually runs with that channel's context and finds it active (it
\* then sets the event and unmasks the channel), whatever other channels'
\* handlers ran on the same processor in between.
C21_DpcRunsFor(c) == \E k \in Cpus : cpus[k].run = c
C21_Closed(c) == chans[c].freepc # "none"

C21_EverySignalDelivered ==
    \A k \in Cpus, c \in Chans :
        (cpus[k].isr = c) ~> (C21_DpcRunsFor(c) \/ C21_Closed(c))

\* What holds of the code: the signal is delivered when the DPC object of the
\* processor is not queued already at the moment the handler queues it.
C21_SignalDeliveredIfDpcIdle ==
    \A k \in Cpus, c \in Chans :
        (cpus[k].isr = c /\ cpus[k].dpc = 0) ~> (C21_DpcRunsFor(c) \/ C21_Closed(c))

\* The handler of one channel has queued the DPC of a processor, and the
\* handler of another channel was entered on the same processor before the
\* DPC ran.
C21_Witness ==
    \E k \in Cpus, c, d \in Chans :
        /\ c # d
        /\ cpus[k].dpc = d /\ cpus[k].isr = c
        /\ chans[c].Active = 1 /\ ~C21_Closed(c) /\ ~C21_Closed(d)

\* C22: the bus is never asked to Unmask or to Send on a channel after
\* EvtchnFree has asked it to Close that channel.
C22_NoBusCallAfterClose == \A c \in Chans : ~chans[c].opsAfterClose

\* What holds of the code: every context in the registry has its channel
\* open, so IoctlEvtchnNotify and IoctlEvtchnUnmask, which look the context up
\* and call the bus under the registry lock, only ever reach an open channel
\* and answer not-found (invalid-parameter for Unmask) for one that was
\* removed; a call on a closed channel is only ever made by
\* EvtchnNotificationDpc.
C22_HandlerStep ==
    /\ \A n \in 1..Len(EvtchnList) :
          chans[EvtchnList[n]].bus = "open" /\ chans[EvtchnList[n]].mem = "alloc"
    /\ \A c \in Chans :
          chans'[c].opsAfterClose /\ ~chans[c].opsAfterClose
            => \E k \in Cpus : cpus[k].run = c /\ cpus'[k].run = 0
    /\ (ret' # ret /\ ret'.op \in {"EvtchnNotify", "EvtchnUnmask"})
          => IF \E n \in 1..Len(EvtchnList) :
                   /\ chans[EvtchnList[n]].LocalPort = ret'.RequestId
                   /\ chans[EvtchnList[n]].FileObject = ret'.Process
             THEN ret'.status = STATUS_SUCCESS
             ELSE ret'.status \in {STATUS_NOT_FOUND, STATUS_INVALID_PARAMETER}

C22_OnlyDpcReachesClosed == [][C22_HandlerStep]_vars

\* EvtchnNotificationDpc has unmasked a channel that EvtchnFree had closed.
C22_Witness ==
    \E c \in Chans :
        /\ chans[c].opsAfterClose
        /\ chans[c].closes = 1
        /\ chans[c].signalled

\* C23: the bind path never writes a channel context after a concurrent
\* IoctlEvtchnClose or XenIfaceCleanup has freed it, and every context in the
\* registry, which a Close can find, is already marked active.
C23_BindNeverTouchesFreed ==
    /\ \A c \in Chans : ~chans[c].wroteFreed
    /\ \A n \in 1..Len(EvtchnList) : chans[EvtchnList[n]].Active = 1

\* What holds of the code: a context in the registry is allocated and its
\* channel open, and it is active once the bind that made it has returned; a
\* context is only ever written after its release by the bind that inserted
\* it and had not yet set Active.
C23_RegisteredOnceBound ==
    /\ \A n \in 1..Len(EvtchnList) :
          LET c == EvtchnList[n] IN
          /\ chans[c].mem = "alloc" /\ chans[c].bus = "open"
          /\ chans[c].bindpc = "done" => chans[c].Active = 1
    /\ \A c \in Chans :
          chans[c].wroteFreed => chans[c].mem = "freed" /\ chans[c].bindpc = "done"

\* A bind inserted its context, a Close of the same client found it, unlinked
\* and freed it, and the bind then stored Active into the freed context.
C23_Witness ==
    \E c \in Chans :
        /\ chans[c].wroteFreed
        /\ chans[c].owner = "close"
        /\ chans[c].freepc = "freed"

\* C24: when IoctlEvtchnClose and XenIfaceCleanup, or two IoctlEvtchnClose
\* requests, go for the same channel, exactly one of them unlinks the context
\* and calls EvtchnFree on it: the bus Close, the dereference of the event and
\* the release of the memory each happen once, and a Close that comes second
\* returns STATUS_NOT_FOUND.
C24_FreedOnce(c) ==
    /\ chans[c].closes <= 1
    /\ chans[c].eventRef \in {0, 1}
    /\ chans[c].closes = 1 <=> chans[c].freepc \in {"closed", "freed"}
    /\ chans[c].eventRef = 0 <=> chans[c].freepc = "freed"
    /\ chans[c].mem = "freed" <=> chans[c].freepc = "freed"
    /\ chans[c].freepc # "none" => \A n \in 1..Len(EvtchnList) : EvtchnList[n] # c

C24_Taken(c) == chans[c].freepc # "none"

C24_OneOwnerStep ==
    /\ \A c \in Chans :
          C24_Taken(c) =>
             /\ C24_Taken(c)'
             /\ chans'[c].owner = chans[c].owner
             /\ chans'[c].closes >= chans[c].closes
    /\ \A c \in Chans :
          /\ C24_Taken(c)
          /\ chans[c].LocalPort # 0
          /\ ret' # ret
          /\ ret'.op = "EvtchnClose"
          /\ ret'.RequestId = chans[c].LocalPort
          /\ ret'.Process = chans[c].FileObject
          /\ chans' = chans
          => ret'.status = STATUS_NOT_FOUND

C24_ChannelFreedExactlyOnce ==
    /\ [](\A c \in Chans : C24_FreedOnce(c))
    /\ [][C24_OneOwnerStep]_vars

\* A Close found the channel already taken by XenIfaceCleanup, or by an earlier
\* Close, and returned STATUS_NOT_FOUND; the channel was released since.
C24_Witness ==
    \E c \in Chans :
        /\ chans[c].freepc = "freed"
        /\ chans[c].owner = "cleanup"
        /\ ret.op = "EvtchnClose"
        /\ ret.status = STATUS_NOT_FOUND
        /\ ret.RequestId = GetPort(c)

C24_WitnessTwoCloses ==
    \E c \in Chans :
        /\ chans[c].freepc \in {"detached", "inactive", "closed"}
        /\ chans[c].owner = "close"
        /\ ret.op = "EvtchnClose"
        /\ ret.status = STATUS_NOT_FOUND
        /\ ret.RequestId = chans[c].LocalPort
        /\ ret.Process = chans[c].FileObject

\* C25: every parked request is completed exactly once, by a Revoke or Unmap
\* with success or by CompleteGnttabIrp with STATUS_CANCELLED, and no thread
\* writes to a request after it was completed: once IoCsqInsertIrpEx has
\* succeeded, XenIfaceIoctl neither completes the request nor stores a status
\* into it after a concurrent Revoke, Unmap or cancellation completed it.
C25_NoWriteAfterCompletion ==
    \A i \in Irps :
        /\ Len(irps[i].completions) <= 1
        /\ ~irps[i].lateWrite

\* What holds of the code: no request is completed twice, the dispatcher's
\* step after a successful insertion completes nothing, and a store into a
\* completed request is only ever the dispatcher's store of STATUS_PENDING.
C25_DoneStep ==
    \A i \in Irps :
        /\ Len(irps'[i].completions) <= 1
        /\ irps[i].tail /\ ~irps'[i].tail
              => /\ irps'[i].completions = irps[i].completions
                 /\ irps'[i].Status = STATUS_PENDING
        /\ ~irps[i].lateWrite /\ irps'[i].lateWrite
              => /\ irps[i].tail
                 /\ irps[i].completions # <<>>
                 /\ irps'[i].Status = STATUS_PENDING

C25_CompletedOnceLateStoreOnly == [][C25_DoneStep]_vars

\* A parked request was taken and completed by a Revoke, an Unmap or a
\* cancellation before the dispatcher stored STATUS_PENDING into it.
C25_Witness ==
    \E i \in Irps :
        /\ irps[i].lateWrite
        /\ Len(irps[i].completions) = 1
        /\ irps[i].completions[1] \in {STATUS_SUCCESS, STATUS_CANCELLED}
        /\ irps[i].Status = STATUS_PENDING

\* C26: IoctlGnttabGetGrantResult and IoctlGnttabGetMapResult never read a
\* context that was freed: the peek and every read of the context lie inside
\* one critical section of the queue lock, and a context is only freed after
\* its request was taken out of the queue under that lock.
C26_QueryHoldsLiveContext ==
    /\ ret.Exit # "use-after-free"
    /\ ret.Exit = "locked"
          => /\ ret.Held = 1
             /\ InQueue(ret.Irp)
             /\ Live(irps[ret.Irp].log, "Context") = 1
             /\ IdOf(irps[ret.Irp]) =
                   MkId(ret.Process, ret.RequestId,
                        IF ret.op = "GetGrantResult" THEN XENIFACE_CONTEXT_GRANT
                        ELSE XENIFACE_CONTEXT_MAP)

C26_FreeStep ==
    \A i \in Irps :
        /\ irps'[i].log # irps[i].log
        /\ Live(irps[i].log, "Context") = 1
        /\ Live(irps'[i].log, "Context") = 0
        => /\ ~InQueue(i)
           /\ ~(ret.Exit = "locked" /\ ret.Irp = i)

C26_ReadStep ==
    ret.Exit = "locked" /\ ret' # ret
        => /\ ret'.Held = 0
           /\ ret'.Exit \in {"success", "fail3"}
           /\ ret'.status = (IF ret.op = "GetGrantResult"
                             THEN GetGrantResult(ret.Process, QueryIn(SizeofGetGrantResultIn, ret.OutLen, ret.RequestId))
                             ELSE GetMapResult(ret.Process, QueryIn(SizeofGetMapResultIn, ret.OutLen, ret.RequestId))).status
           /\ ret'.status = STATUS_SUCCESS => ret'.Out[1] = UserVa(ret.Irp)
           /\ UNCHANGED <<irps, IrpQueue>>

C26_ResultsNeverReadFreed ==
    /\ []C26_QueryHoldsLiveContext
    /\ [][C26_FreeStep /\ C26_ReadStep]_vars

\* A query returned the address of a grant read under the lock, and the
\* grant's context has been freed by a Revoke since.
C26_Witness ==
    /\ ret.op = "GetGrantResult"
    /\ ret.Exit = "success"
    /\ ret.Irp = 0
    /\ \E i \in Irps :
          /\ ret.Out[1] = UserVa(i)
          /\ irps[i].Type = XENIFACE_CONTEXT_GRANT
          /\ irps[i].by = "Revoke"
          /\ Live(irps[i].log, "Context") = 0

C26_WitnessMap ==
    /\ ret.op = "GetMapResult"
    /\ ret.Exit = "success"
    /\ \E i \in Irps :
          /\ ret.Out[1] = UserVa(i)
          /\ irps[i].Type = XENIFACE_CONTEXT_MAP
          /\ irps[i].by = "Cancel"
          /\ Live(irps[i].log, "Context") = 0

\* C27: no thread holds two of the three registry locks at once, and none is
\* held while a blocking step runs; EvtchnFree is called only after EvtchnLock
\* was released; so no thread can wait for ever on another.
C27_CanStep(t) ==
    /\ Running(t)
    /\ NextCall(t).op = "acquire" => \A u \in Threads : NextCall(t).arg \notin threads[u].held
    /\ NextCall(t).op = "wait" => \A u \in Threads : threads[u].handler # "EvtchnNotificationDpc"

C27_LocksAreLeaves ==
    /\ \A t \in Threads :
          /\ Cardinality(threads[t].held) <= 1
          /\ threads[t].held # {} => NextCall(t).op \in {"call", "release"}
          /\ NextCall(t).op = "wait" => threads[t].held = {}
          /\ NextCall(t).arg \in {"Close", "KeFlushQueuedDpcs", "ExFreePoolWithTag"}
                => "EvtchnLock" \notin threads[t].held
          /\ ~Running(t) \/ Returning(t) => threads[t].held = {}
    /\ \A t, u \in Threads : t # u => threads[t].held \cap threads[u].held = {}
    /\ (\E t \in Threads : Running(t)) => \E t \in Threads : C27_CanStep(t)
    /\ \A t \in Threads :
          Running(t) /\ ~C27_CanStep(t)
             => \E u \in Threads \ {t} :
                   /\ C27_CanStep(u)
                   /\ \/ NextCall(t).arg \in threads[u].held
                      \/ threads[u].handler = "EvtchnNotificationDpc"

\* XenIfaceCleanup waits in KeFlushQueuedDpcs, holding no lock, for a DPC that
\* is running, while a third thread holds EvtchnLock in EvtchnNotify.
C27_Witness ==
    \E t, u, v \in Threads :
        /\ threads[t].handler = "XenIfaceCleanup"
        /\ NextCall(t).op = "wait"
        /\ threads[u].handler = "EvtchnNotificationDpc"
        /\ threads[v].handler = "IoctlGnttabRevokeForeignAccess"
        /\ threads[v].held = {"EvtchnLock"}

\* C28: whenever the user mapping of a context is unmapped, the thread that
\* does it is in the address space of the process that owns the context:
\* Revoke and Unmap only find contexts of the calling process, and
\* CompleteGnttabIrp attaches to the owner exactly when the current process is
\* another one, tears the context down and detaches if and only if it attached.
C28_At(log, op) == {n \in 1..Len(log) : log[n][1] = op}

C28_TornDownInOwner(i) ==
    LET log == irps[i].log
        owner == irps[i].Process
        attached == irps[i].by = "Cancel" /\ irps[i].current # owner
    IN
    /\ \A n \in C28_At(log, "UnmapIn") : log[n][2] = owner
    /\ \A n \in C28_At(log, "MapIn") : log[n][2] = owner
    /\ irps[i].by \in {"Revoke", "Unmap"}
          => /\ irps[i].current = owner
             /\ C28_At(log, "Attach") = {} /\ C28_At(log, "Detach") = {}
    /\ irps[i].pc = "removed" => irps[i].current = owner
    /\ irps[i].by = "Cancel"
          => /\ Cardinality(C28_At(log, "Attach")) = (IF attached THEN 1 ELSE 0)
             /\ Cardinality(C28_At(log, "Detach")) = (IF attached THEN 1 ELSE 0)
             /\ \A a \in C28_At(log, "Attach") :
                   /\ log[a][2] = owner
                   /\ \A u \in C28_At(log, "UnmapIn") : a < u
             /\ \A d \in C28_At(log, "Detach") :
                   /\ d = Len(log)
                   /\ \A u \in C28_At(log, "UnmapIn") : u < d

C28_UnmappedInOwnersAddressSpace == \A i \in Irps : C28_TornDownInOwner(i)

\* A request of one process was cancelled, and the worker thread, which was in
\* another address space, attached, unmapped and detached; the request of the
\* other process with the same id was revoked by its owner.
C28_Witness ==
    \E i, j \in Irps :
        /\ irps[i].by = "Cancel"
        /\ irps[i].current \notin {irps[i].Process, "none"}
        /\ C28_At(irps[i].log, "UnmapIn") # {}
        /\ C28_At(irps[i].log, "Detach") # {}
        /\ irps[j].by = "Revoke"
        /\ irps[j].Process # irps[i].Process
        /\ irps[j].RequestId = irps[i].RequestId
        /\ C28_At(irps[j].log, "UnmapIn") # {}

\* C29: GnttabFreeMap notifies first (the byte at the notify offset is zeroed,
\* then the event channel is signalled), then unmaps the user mapping, then
\* the kernel mapping, and asks the bus to unmap the foreign pages last: the
\* notify byte is written while the kernel mapping exists, and the bus unmap is
\* never made while a user or kernel mapping of the pages exists.
C29_Before(log, a, b) ==
    \A m \in C28_At(log, a), n \in C28_At(log, b) : m < n

C29_FreeAt(log, r) == {n \in C28_At(log, "Free") : log[n][2] = r}

C29_TornDownMap(i) ==
    /\ irps[i].Type = XENIFACE_CONTEXT_MAP
    /\ irps[i].by \in {"Unmap", "Cancel"}

C29_InOrder(i) ==
    LET log == irps[i].log
        offset == HasFlag(irps[i].Flags, XENIFACE_GNTTAB_USE_NOTIFY_OFFSET)
        port == HasFlag(irps[i].Flags, XENIFACE_GNTTAB_USE_NOTIFY_PORT)
    IN
    /\ Cardinality(C28_At(log, "NotifyOffset")) = (IF offset THEN 1 ELSE 0)
    /\ Cardinality(C28_At(log, "NotifyPort")) = (IF port THEN 1 ELSE 0)
    /\ Cardinality(C28_At(log, "UnmapIn")) = 1
    /\ Cardinality(C29_FreeAt(log, "KernelVa")) = 1
    /\ Cardinality(C28_At(log, "Unmap")) = 1
    /\ C29_Before(log, "NotifyOffset", "Send")
    /\ C29_Before(log, "NotifyOffset", "NotifyPort")
    /\ C29_Before(log, "Send", "NotifyPort")
    /\ C29_Before(log, "NotifyOffset", "UnmapIn")
    /\ C29_Before(log, "NotifyPort", "UnmapIn")
    /\ \A u \in C28_At(log, "UnmapIn"), k \in C29_FreeAt(log, "KernelVa") : u < k
    /\ \A k \in C29_FreeAt(log, "KernelVa"), b \in C28_At(log, "Unmap") : k < b
    /\ \A n \in C28_At(log, "NotifyOffset") :
          /\ Live(SubSeq(log, 1, n), "KernelVa") = 1
          /\ log[n][2] = irps[i].NotifyOffset
    /\ \A b \in C28_At(log, "Unmap") :
          /\ Live(SubSeq(log, 1, b), "UserVa") = 0
          /\ Live(SubSeq(log, 1, b), "KernelVa") = 0
          /\ Count(SubSeq(log, 1, b), Ev("MapIn", irps[i].Process)) = 1

C29_FreeMapOrder == \A i \in Irps : C29_TornDownMap(i) => C29_InOrder(i)

\* A map with a notify offset and a bound notify port was unmapped: the byte
\* was zeroed, the channel was signalled, and the mappings were undone.
C29_Witness ==
    \E i \in Irps :
        /\ C29_TornDownMap(i)
        /\ irps[i].by = "Unmap"
        /\ C28_At(irps[i].log, "NotifyOffset") # {}
        /\ C28_At(irps[i].log, "Send") # {}
        /\ C28_At(irps[i].log, "Unmap") # {}

\* C30: an event-channel notification that fails during teardown neither stops
\* nor changes the teardown: the user mapping is unmapped, every page is
\* revoked (or the foreign mapping undone), the memory is released, and the
\* Revoke or Unmap request returns success.
C30_FailedNotify(log) ==
    {n \in C28_At(log, "NotifyPort") : log[n][2] # STATUS_SUCCESS}

C30_WithoutDetach(log) ==
    IF log # <<>> /\ log[Len(log)][1] = "Detach" THEN SubSeq(log, 1, Len(log) - 1) ELSE log

C30_TeardownOf(rec) ==
    IF rec.Type = XENIFACE_CONTEXT_GRANT
    THEN <<Ev("UnmapIn", rec.Process), Ev("Free", "UserVa")>>
            \o [k \in 1..rec.NumberPages |-> Ev("Revoke", k - 1)]
            \o <<Ev("Free", "Mdl"), Ev("Free", "KernelVa"), Ev("Free", "Grants"),
                 Ev("Free", "Context")>>
    ELSE <<Ev("UnmapIn", rec.Process), Ev("Free", "UserVa"), Ev("Free", "Mdl"),
           Ev("Free", "KernelVa"), Ev("Unmap", 0), Ev("Free", "Context")>>

C30_TornDownAll(i) ==
    LET log == irps[i].log IN
    \A n \in C30_FailedNotify(log) :
        /\ C28_At(log, "Send") = {}
        /\ C30_WithoutDetach(SubSeq(log, n + 1, Len(log))) = C30_TeardownOf(irps[i])
        /\ Allocations(log) = 0
        /\ SharedPages(log, irps[i].NumberPages) = 0
        /\ Mapped(log) = 0
        /\ Count(log, Ev("UnmapIn", irps[i].Process)) = 1

C30_ReturnStep ==
    \A i \in Irps :
        /\ irps[i].pc = "completing" /\ irps'[i].pc = "done"
        /\ irps[i].by \in {"Revoke", "Unmap"}
        /\ C30_FailedNotify(irps[i].log) # {}
        => /\ ret'.status = STATUS_SUCCESS
           /\ ret'.op = irps[i].by
           /\ ret'.Process = irps[i].Process /\ ret'.RequestId = irps[i].RequestId
           /\ irps'[i].log = irps[i].log

C30_FailedNotifyIsNotFatal ==
    /\ [](\A i \in Irps : irps[i].by # "none" => C30_TornDownAll(i))
    /\ [][C30_ReturnStep]_vars

\* A two-page grant whose notify port no channel is bound to was revoked: the
\* notification failed, the grant was torn down and Revoke returned success.
C30_Witness ==
    \E i \in Irps :
        /\ irps[i].Type = XENIFACE_CONTEXT_GRANT
        /\ irps[i].by = "Revoke"
        /\ irps[i].pc = "done"
        /\ C30_FailedNotify(irps[i].log) # {}
        /\ Allocations(irps[i].log) = 0
        /\ ret.op = "Revoke" /\ ret.status = STATUS_SUCCESS

C30_WitnessMap ==
    \E i \in Irps :
        /\ irps[i].Type = XENIFACE_CONTEXT_MAP
        /\ irps[i].by = "Unmap"
        /\ irps[i].pc = "done"
        /\ C30_FailedNotify(irps[i].log) # {}
        /\ Mapped(irps[i].log) = 0
        /\ ret.op = "Unmap" /\ ret.status = STATUS_SUCCESS

\* C31: IoctlEvtchnClose, IoctlEvtchnNotify and IoctlEvtchnUnmask act only on a
\* channel with the given local port that the calling client owns: for a port
\* that is unbound or bound by another client Close and Notify return
\* STATUS_NOT_FOUND and Unmask returns STATUS_INVALID_PARAMETER, the bus is not
\* called and the other client's channel stays registered, active and unchanged.
C31_OwnsNone(F, LocalPort) ==
    \A c \in Chans : ~(chans[c].LocalPort = LocalPort /\ chans[c].FileObject = F)

C31_Refused(op, F, LocalPort, status) ==
    /\ ret' = Ret(op, F, LocalPort, status, <<>>)
    /\ chans' = chans
    /\ EvtchnList' = EvtchnList
    /\ cpus' = cpus

C31_Step ==
    \A F \in FileObjects, LocalPort \in Chans :
        C31_OwnsNone(F, LocalPort)
        => /\ IoctlEvtchnClose(F, LocalPort)
                => C31_Refused("EvtchnClose", F, LocalPort, STATUS_NOT_FOUND)
           /\ IoctlEvtchnNotify(F, LocalPort)
                => C31_Refused("EvtchnNotify", F, LocalPort, STATUS_NOT_FOUND)
           /\ IoctlEvtchnUnmask(F, LocalPort)
                => C31_Refused("EvtchnUnmask", F, LocalPort, STATUS_INVALID_PARAMETER)

C31_OnlyOwnChannels == [][C31_Step]_vars

\* A client asked to unmask the port that the other client has bound and was
\* refused; the other client's channel is still registered, active and open.
C31_Witness ==
    \E c \in Chans :
        /\ ret.op = "EvtchnUnmask"
        /\ ret.status = STATUS_INVALID_PARAMETER
        /\ chans[c].LocalPort = ret.RequestId
        /\ chans[c].FileObject \notin {ret.Process, NoFileObject}
        /\ chans[c].Active = 1 /\ chans[c].bus = "open"
        /\ \E n \in 1..Len(EvtchnList) : EvtchnList[n] = c

C31_WitnessClose ==
    \E c \in Chans :
        /\ ret.op = "EvtchnClose"
        /\ ret.status = STATUS_NOT_FOUND
        /\ chans[c].LocalPort = ret.RequestId
        /\ chans[c].FileObject \notin {ret.Process, NoFileObject}
        /\ chans[c].Active = 1 /\ chans[c].bus = "open"
        /\ \E n \in 1..Len(EvtchnList) : EvtchnList[n] = c

C31_WitnessNotify ==
    \E c \in Chans :
        /\ ret.op = "EvtchnNotify"
        /\ ret.status = STATUS_NOT_FOUND
        /\ chans[c].LocalPort = ret.RequestId
        /\ chans[c].FileObject \notin {ret.Process, NoFileObject}
        /\ chans[c].Active = 1 /\ chans[c].bus = "open"
        /\ \E n \in 1..Len(EvtchnList) : EvtchnList[n] = c

\* ---------------------------------------------------------------------------
\* C32: IoctlStoreRemoveWatch with a handle that is no watch of the caller.
Linked(w) == \E n \in 1..Len(StoreWatchList) : StoreWatchList[n] = w

C32_Own(F, InContext) ==
    InContext \in Watches /\ Linked(InContext) /\ watches[InContext].FileObject = F

C32_LastForeign(F, InContext) ==
    /\ StoreWatchList # <<>>
    /\ StoreWatchList[Len(StoreWatchList)] = InContext
    /\ watches[InContext].FileObject # F

C32_RefusedUntouched ==
    /\ ret'.status = STATUS_NOT_FOUND
    /\ UNCHANGED <<watches, StoreWatchList>>

\* C32 (as claimed): a remove with a handle that is no watch, or the watch of
\* another client, returns STATUS_NOT_FOUND and leaves every watch registered,
\* allocated and linked, wherever that watch is in the list.
C32_ForeignHandleStep ==
    \A F \in FileObjects, InContext \in WatchHandles :
        ~C32_Own(F, InContext) =>
            (IoctlStoreRemoveWatch(F, InContext, "none") => C32_RefusedUntouched)

C32_ForeignHandleRefused == [][C32_ForeignHandleStep]_vars

\* C32 (what holds): the handle of a linked watch of the caller unlinks and
\* frees exactly that watch, with one WatchRemove, and returns success; a
\* handle that is no watch of the caller is refused and nothing changes,
\* unless it is the last entry of the list; then that entry, another
\* client's watch, is unregistered and freed while it stays linked, and the
\* call returns success.
C32_RemoveStep ==
    \A F \in FileObjects, InContext \in WatchHandles :
        IoctlStoreRemoveWatch(F, InContext, "none") =>
            IF C32_Own(F, InContext)
            THEN /\ ret'.status = STATUS_SUCCESS
                 /\ StoreWatchList' = RemoveEntryList(StoreWatchList, InContext)
                 /\ Len(StoreWatchList') = Len(StoreWatchList) - 1
                 /\ watches'[InContext].mem = "freed"
                 /\ watches'[InContext].removes = 1
                 /\ \A v \in Watches \ {InContext} : watches'[v] = watches[v]
            ELSE IF C32_LastForeign(F, InContext)
            THEN /\ ret'.status = STATUS_SUCCESS
                 /\ StoreWatchList' = StoreWatchList
                 /\ watches'[InContext].mem = "freed"
                 /\ watches'[InContext].removes = 1
                 /\ \A v \in Watches \ {InContext} : watches'[v] = watches[v]
            ELSE C32_RefusedUntouched

C32_OwnRemovedOnce == [][C32_RemoveStep]_vars

\* A client's remove returned success, and the watch it named, allocated for
\* the other client, is freed and still in the list.
C32_Witness ==
    /\ ret.op = "StoreRemoveWatch"
    /\ ret.status = STATUS_SUCCESS
    /\ ret.RequestId \in Watches
    /\ watches[ret.RequestId].mem = "freed"
    /\ watches[ret.RequestId].by # ret.Process
    /\ Linked(ret.RequestId)
    /\ Len(StoreWatchList) > 1

\* A client removed its own watch from the middle of the list.
C32_WitnessOwn ==
    /\ ret.op = "StoreRemoveWatch"
    /\ ret.status = STATUS_SUCCESS
    /\ ret.RequestId \in Watches
    /\ watches[ret.RequestId].by = ret.Process
    /\ ~Linked(ret.RequestId)
    /\ StoreWatchList = <<1, 3>>

\* A foreign watch that is not last in the list was refused.
C32_WitnessRefused ==
    /\ ret.op = "StoreRemoveWatch"
    /\ ret.status = STATUS_NOT_FOUND
    /\ ret.RequestId \in Watches
    /\ Linked(ret.RequestId)
    /\ watches[ret.RequestId].FileObject # ret.Process
    /\ watches[ret.RequestId].mem = "alloc"

\* ---------------------------------------------------------------------------
\* C33: lookups and removals match client, request id and kind.
C33_Pending(p, r, t) ==
    {i \in Irps : /\ InQueue(i)
                  /\ irps[i].Process = p /\ irps[i].RequestId = r /\ irps[i].Type = t}

C33_KindOf(op) ==
    IF op \in {"GetGrantResult", "Revoke"} THEN XENIFACE_CONTEXT_GRANT ELSE XENIFACE_CONTEXT_MAP

\* A removal by client p for request id r of kind t takes a pending request
\* with exactly that client, id and kind and changes no other; when there is
\* none (whatever else is pending under the id) it returns STATUS_NOT_FOUND
\* and changes nothing.
C33_Removal(op, p, r) ==
    IF C33_Pending(p, r, C33_KindOf(op)) = {}
    THEN /\ ret'.op = op /\ ret'.Process = p /\ ret'.status = STATUS_NOT_FOUND
         /\ UNCHANGED <<irps, IrpQueue>>
    ELSE \E i \in C33_Pending(p, r, C33_KindOf(op)) :
            /\ irps'[i].pc = "removed"
            /\ ~InQueue(i)'
            /\ \A j \in Irps \ {i} : irps'[j] = irps[j] /\ (InQueue(j)' <=> InQueue(j))

C33_RemovalStep ==
    (irps' # irps \/ ret' # ret) =>
    \A p \in Procs, In \in RaceQueries :
        /\ IoctlGnttabRevokeForeignAccess(p, In) => C33_Removal("Revoke", p, In.RequestId)
        /\ IoctlGnttabUnmapForeignPages(p, In) => C33_Removal("Unmap", p, In.RequestId)

\* A query that took the lock holds a pending request of its own client, id
\* and kind, or has found none and left with STATUS_NOT_FOUND; a successful
\* query returns the user address of the request it held.
C33_QueryStep ==
    (ret' # ret /\ ret'.op \in {"GetGrantResult", "GetMapResult"}) =>
        /\ ret'.Exit = "locked" =>
               ret'.Irp \in C33_Pending(ret'.Process, ret'.RequestId, C33_KindOf(ret'.op))
        /\ (ret.Exit # "locked" /\ ret'.Exit # "locked") =>
               /\ ret'.status = STATUS_NOT_FOUND
               /\ C33_Pending(ret'.Process, ret'.RequestId, C33_KindOf(ret'.op)) = {}
        /\ (ret.Exit = "locked" /\ ret'.status = STATUS_SUCCESS) =>
               /\ ret'.Out[1] = UserVa(ret.Irp)
               /\ ret.Irp \in C33_Pending(ret'.Process, ret'.RequestId, C33_KindOf(ret'.op))

\* An insertion is refused only for a pending request of the same client, id
\* and kind.
C33_InsertStep ==
    \A i \in Irps :
        (irps[i].pc = "built" /\ irps'[i].pc # "built"
         /\ C33_Pending(irps[i].Process, irps[i].RequestId, irps[i].Type) = {})
            => InQueue(i)'

\* C33: GetGrantResult and RevokeForeignAccess observe and remove only a
\* pending grant of the calling client with the request id given,
\* GetMapResult and UnmapForeignPages only such a map; with only a request of
\* the other kind or of another client pending under the id they return
\* STATUS_NOT_FOUND and leave it pending; and a grant and a map with the same
\* id of one client are both accepted.
C33_FullTripleMatch == [][C33_RemovalStep /\ C33_QueryStep /\ C33_InsertStep]_vars

\* A grant and a map of one client with the same request id are pending, and
\* the client's GetMapResult returned the user address of the map.
C33_Witness ==
    \E i, j \in Irps :
        /\ InQueue(i) /\ InQueue(j)
        /\ irps[i].Process = irps[j].Process /\ irps[i].RequestId = irps[j].RequestId
        /\ irps[i].Type = XENIFACE_CONTEXT_GRANT /\ irps[j].Type = XENIFACE_CONTEXT_MAP
        /\ ret.op = "GetMapResult" /\ ret.status = STATUS_SUCCESS
        /\ ret.Process = irps[j].Process /\ ret.Out[1] = UserVa(j)

\* Another client's grant is pending under the id, and the Revoke of a client
\* that has none returned STATUS_NOT_FOUND.
C33_WitnessOtherClient ==
    \E i \in Irps :
        /\ InQueue(i) /\ irps[i].Type = XENIFACE_CONTEXT_GRANT
        /\ ret.op = "Revoke" /\ ret.status = STATUS_NOT_FOUND
        /\ ret.Process # irps[i].Process /\ ret.RequestId = irps[i].RequestId
        /\ \A j \in Irps \ {i} : irps[j].pc = "idle"

\* The client's grant is pending under the id, and its Unmap returned
\* STATUS_NOT_FOUND.
C33_WitnessOtherKind ==
    \E i \in Irps :
        /\ InQueue(i) /\ irps[i].Type = XENIFACE_CONTEXT_GRANT
        /\ ret.op = "Unmap" /\ ret.status = STATUS_NOT_FOUND
        /\ ret.Process = irps[i].Process /\ ret.RequestId = irps[i].RequestId
        /\ \A j \in Irps \ {i} : irps[j].pc = "idle"

\* ---------------------------------------------------------------------------
\* C34: XenIfaceCleanup leaves the request queue as it is.
C34_Intact(i) ==
    /\ InQueue(i)
    /\ irps[i].completions = <<>>
    /\ Live(irps[i].log, "Context") = 1
    /\ Live(irps[i].log, "UserVa") = 1
    /\ IF irps[i].Type = XENIFACE_CONTEXT_GRANT
       THEN SharedPages(irps[i].log, irps[i].NumberPages) = irps[i].NumberPages
       ELSE Mapped(irps[i].log) = 1 /\ Live(irps[i].log, "KernelVa") = 1

\* The steps of XenIfaceCleanup change no request and not the queue.
C34_CleanupStep ==
    \A F \in FileObjects :
        (XenIfaceCleanup(F) \/ XenIfaceCleanup_Free(F) \/ XenIfaceCleanup_Return(F))
            => UNCHANGED <<irps, IrpQueue>>

\* A request leaves the queue by the Revoke or Unmap of its client or by
\* cancellation.
C34_LeaveStep ==
    \A i \in Irps :
        (InQueue(i) /\ ~InQueue(i)') =>
            \/ irps'[i].pc = "cancelled"
            \/ /\ irps'[i].pc = "removed"
               /\ irps'[i].current = irps[i].Process
               /\ \E In \in RaceQueries :
                      \/ IoctlGnttabRevokeForeignAccess(irps[i].Process, In)
                      \/ IoctlGnttabUnmapForeignPages(irps[i].Process, In)

\* After the client's handle was closed, a query for a parked request of the
\* client succeeds and returns its user address.
C34_QueryStep ==
    (ret' # ret /\ ret'.op \in {"GetGrantResult", "GetMapResult"}) =>
        \A i \in Irps :
            (/\ InQueue(i)
             /\ irps[i].Process = ret'.Process /\ irps[i].RequestId = ret'.RequestId
             /\ irps[i].Type = (IF ret'.op = "GetGrantResult" THEN XENIFACE_CONTEXT_GRANT
                                ELSE XENIFACE_CONTEXT_MAP))
                => ret'.status = STATUS_SUCCESS /\ ret'.Out[1] = UserVa(i)

\* C34: XenIfaceCleanup changes neither the parked requests nor the queue;
\* a parked request (before, during and after the cleanup of its client's
\* handle) is not completed, has its context and its user mapping and its
\* pages shared or mapped, and is returned by the result query; it leaves the
\* queue only by Revoke, Unmap or cancellation.
C34_CleanupKeepsQueue ==
    /\ [](\A i \in Irps : irps[i].pc = "queued" => C34_Intact(i))
    /\ [][C34_CleanupStep /\ C34_LeaveStep /\ C34_QueryStep]_vars

\* The client closed its handle while a grant and a map were parked; the
\* cleanup has returned and freed the client's channel, both requests are
\* parked, and the grant query made since returned the grant's user address.
C34_Witness ==
    \E i, j \in Irps :
        /\ cleanup["F1"].pc = "done"
        /\ chans[1].mem = "freed"
        /\ irps[i].pc = "queued" /\ irps[i].Type = XENIFACE_CONTEXT_GRANT
        /\ irps[j].pc = "queued" /\ irps[j].Type = XENIFACE_CONTEXT_MAP
        /\ C34_Intact(i) /\ C34_Intact(j)
        /\ ret.op = "GetGrantResult" /\ ret.status = STATUS_SUCCESS
        /\ ret.Out[1] = UserVa(i)

\* ---------------------------------------------------------------------------
\* C35: XenIfaceCleanup for one client leaves the other clients' watches and
\* channels alone.
C35_WatchesOf(list, G) == SelectSeq(list, LAMBDA w : watches[w].by = G)
C35_ChannelsOf(list, G) == SelectSeq(list, LAMBDA c : chans[c].by = G)

\* The cleanup step of client F removes F's entries from both lists and keeps
\* every other entry, in the order it had, and every other context as it is.
C35_CleanupStep ==
    \A F \in FileObjects :
        XenIfaceCleanup(F) =>
            /\ StoreWatchList' = SelectSeq(StoreWatchList, LAMBDA w : watches[w].FileObject # F)
            /\ EvtchnList' = SelectSeq(EvtchnList, LAMBDA c : chans[c].FileObject # F)
            /\ \A w \in Watches : watches[w].FileObject # F => watches'[w] = watches[w]
            /\ \A c \in Chans : chans[c].FileObject # F => chans'[c] = chans[c]

\* While client G has not closed its handle, no step (of another client's
\* cleanup, of EvtchnFree, of a bind or an add) changes a watch of G, changes
\* a channel of G other than by completing G's own bind, or changes the
\* order of G's entries in the lists.
C35_OthersStep ==
    \A G \in FileObjects :
        cleanup'[G].calls = 0 =>
            /\ \A w \in Watches : watches[w].by = G => watches'[w] = watches[w]
            /\ \A c \in Chans : chans[c].by = G =>
                   \/ chans'[c] = chans[c]
                   \/ /\ chans[c].bindpc = "inserted"
                      /\ chans'[c] = [chans[c] EXCEPT !.bindpc = "done", !.Active = 1,
                                                      !.masked = FALSE]
            /\ C35_WatchesOf(StoreWatchList', G) = C35_WatchesOf(StoreWatchList, G)
            /\ C35_ChannelsOf(EvtchnList', G) = C35_ChannelsOf(EvtchnList, G)

\* The contexts of a client that has not closed its handle are allocated,
\* registered, listed once and, once bound, active; no WatchRemove and no
\* Close was made on them.
C35_Untouched ==
    \A G \in FileObjects :
        cleanup[G].calls = 0 =>
            /\ \A w \in Watches : watches[w].by = G =>
                   /\ watches[w].mem = "alloc" /\ watches[w].watch = "added"
                   /\ watches[w].removes = 0 /\ watches[w].eventRef = 1
                   /\ Cardinality({n \in 1..Len(StoreWatchList) : StoreWatchList[n] = w}) = 1
            /\ \A c \in Chans : chans[c].by = G =>
                   /\ chans[c].mem = "alloc" /\ chans[c].bus = "open"
                   /\ chans[c].closes = 0 /\ chans[c].eventRef = 1
                   /\ chans[c].freepc = "none"
                   /\ chans[c].bindpc = "done" => chans[c].Active = 1
                   /\ Cardinality({n \in 1..Len(EvtchnList) : EvtchnList[n] = c}) = 1

\* C35: a XenIfaceCleanup for client A, and the EvtchnFree calls it makes,
\* leave every watch and every channel of the other clients listed in the
\* same relative order, allocated, registered and active, with no
\* XENBUS_STORE(WatchRemove) and no XENBUS_EVTCHN(Close) on them, wherever
\* A's entries are in the lists.
C35_OthersUntouched == [](C35_Untouched) /\ [][C35_CleanupStep /\ C35_OthersStep]_vars

C35_Done(A, B) ==
    /\ A # B
    /\ cleanup[A].pc = "done" /\ cleanup[B].calls = 0
    /\ \A c \in Chans : chans[c].by = A => chans[c].mem = "freed"
    /\ \A c \in Chans : chans[c].by = B => chans[c].Active = 1 /\ chans[c].bus = "open"

\* A's entries first and adjacent: A added two watches and bound a channel,
\* then B added a watch and bound a channel; A's cleanup has returned.
C35_Witness ==
    \E A, B \in FileObjects :
        /\ C35_Done(A, B)
        /\ watches[1].by = A /\ watches[2].by = A /\ watches[3].by = B
        /\ StoreWatchList = <<3>>
        /\ chans[1].by = A /\ chans[2].by = B
        /\ EvtchnList = <<2>>

\* A's entries last and adjacent.
C35_WitnessLast ==
    \E A, B \in FileObjects :
        /\ C35_Done(A, B)
        /\ watches[1].by = B /\ watches[2].by = A /\ watches[3].by = A
        /\ StoreWatchList = <<1>>
        /\ chans[1].by = B /\ chans[2].by = A
        /\ EvtchnList = <<1>>

\* A's entry between two entries of B, which keep their order.
C35_WitnessBetween ==
    \E A, B \in FileObjects :
        /\ C35_Done(A, B)
        /\ watches[1].by = B /\ watches[2].by = A /\ watches[3].by = B
        /\ StoreWatchList = <<1, 3>>

\* ---------------------------------------------------------------------------
\* C36: the channel signalled at teardown and the owner of the context.
\* Each client is a process with the handle it opened on the device: the file
\* object its event-channel contexts carry.
C36_HandleOf(p) == IF p = "P1" THEN "F1" ELSE "F2"

C36_Sends(i) == {n \in 1..Len(irps[i].log) : irps[i].log[n][1] = "Send"}

C36_TornDown(i) ==
    /\ irps[i].pc \in {"completing", "done"}
    /\ irps[i].by \in {"Revoke", "Unmap", "Cancel"}
    /\ HasFlag(irps[i].Flags, XENIFACE_GNTTAB_USE_NOTIFY_PORT)

\* C36 (as claimed): every XENBUS_EVTCHN(Send) made by the teardown of a
\* grant or map context is on a channel bound by the client that owns the
\* context.
C36_SendsOnlyToOwnChannel ==
    \A i \in Irps : \A n \in C36_Sends(i) :
        chans[irps[i].log[n][2]].by = C36_HandleOf(irps[i].Process)

\* C36 (what holds): the teardown of a context with the notify-port flag
\* makes one Send when a channel with local port NotifyPort is registered,
\* on the first such channel of Fdo->EvtchnList, whichever client bound it,
\* and none when there is no such channel; a context without the flag makes
\* no Send.
C36_SendsToPortHolder ==
    \A i \in Irps :
        /\ \A n \in C36_Sends(i) :
               /\ HasFlag(irps[i].Flags, XENIFACE_GNTTAB_USE_NOTIFY_PORT)
               /\ chans[irps[i].log[n][2]].LocalPort = irps[i].NotifyPort
               /\ \E k \in 1..Len(EvtchnList) :
                      /\ EvtchnList[k] = irps[i].log[n][2]
                      /\ \A m \in 1..(k - 1) :
                             chans[EvtchnList[m]].LocalPort # irps[i].NotifyPort
        /\ C36_TornDown(i) =>
               Cardinality(C36_Sends(i)) =
                   (IF \E k \in 1..Len(EvtchnList) :
                           chans[EvtchnList[k]].LocalPort = irps[i].NotifyPort
                    THEN 1 ELSE 0)

\* The grant of the client with process P2 named local port 1, which the
\* client with file object F1 has bound; its Revoke made a Send on that
\* channel.
C36_Witness ==
    \E i \in Irps :
        /\ C36_TornDown(i)
        /\ irps[i].Type = XENIFACE_CONTEXT_GRANT /\ irps[i].by = "Revoke"
        /\ irps[i].Process = "P2" /\ irps[i].NotifyPort = 1
        /\ chans[1].by = "F1" /\ chans[1].LocalPort = 1
        /\ \E n \in C36_Sends(i) : irps[i].log[n][2] = 1

\* The map of the client with process P1 named its own channel; the teardown
\* by cancellation made the Send on it.
C36_WitnessOwn ==
    \E i \in Irps :
        /\ C36_TornDown(i)
        /\ irps[i].Type = XENIFACE_CONTEXT_MAP /\ irps[i].by = "Cancel"
        /\ irps[i].Process = "P1" /\ irps[i].NotifyPort = 1
        /\ chans[1].by = C36_HandleOf("P1")
        /\ \E n \in C36_Sends(i) : irps[i].log[n][2] = 1

\* ---------------------------------------------------------------------------
\* C37: NumberPages * PAGE_SIZE in ULONG arithmetic.
\* The request passed validation: its context was allocated.
C37_Accepted(i) == irps[i].log # <<>>

\* The 32-bit product is the product of the integers: dividing it by
\* PAGE_SIZE gives the page count back.
C37_Exact(n) ==
    /\ PagesToBytes32(n) \div PAGE_SIZE = n
    /\ PagesToBytes32(n) % PAGE_SIZE = 0

\* C37 (as claimed): for the page count of every request that validation
\* accepts, the byte length computed in 32 bits is NumberPages * 4096.
C37_NoWrapForAccepted ==
    \A i \in Irps : C37_Accepted(i) => C37_Exact(irps[i].NumberPages)

\* C37 (what holds): an accepted page count is between 1 and 2^20; below
\* 2^20 the byte length is exact; at 2^20, accepted when the notify-offset
\* flag is not set, the byte length is 0.
C37_ExactBelowBoundary ==
    \A i \in Irps :
        C37_Accepted(i) =>
            /\ irps[i].NumberPages \in 1..MaxNumberPages
            /\ irps[i].NumberPages < MaxNumberPages => C37_Exact(irps[i].NumberPages)
            /\ irps[i].NumberPages = MaxNumberPages =>
                   /\ PagesToBytes32(irps[i].NumberPages) = 0
                   /\ ~HasFlag(irps[i].Flags, XENIFACE_GNTTAB_USE_NOTIFY_OFFSET)

\* A grant of 2^20 pages passed validation and its context was allocated;
\* the length the buffer is allocated with is 0.
C37_Witness ==
    \E i \in Irps :
        /\ irps[i].pc = "checked"
        /\ irps[i].Type = XENIFACE_CONTEXT_GRANT
        /\ irps[i].NumberPages = MaxNumberPages
        /\ PagesToBytes32(irps[i].NumberPages) = 0

\* A map of 2^19 - 1 pages with the notify offset in its first page passed
\* validation; its byte length is exact.
C37_WitnessBelow ==
    \E i \in Irps :
        /\ irps[i].pc = "checked"
        /\ irps[i].Type = XENIFACE_CONTEXT_MAP
        /\ irps[i].NumberPages = MaxCheckedPages
        /\ HasFlag(irps[i].Flags, XENIFACE_GNTTAB_USE_NOTIFY_OFFSET)
        /\ PagesToBytes32(irps[i].NumberPages) = 2147479552

\* ---------------------------------------------------------------------------
\* C38: the notify offset of a context lies in its buffer.
C38_OffsetWrites(i) == {n \in 1..Len(irps[i].log) : irps[i].log[n][1] = "NotifyOffset"}

\* NotifyOffset < NumberPages * PAGE_SIZE, as integers.
C38_InBuffer(offset, NumberPages) == offset \div PAGE_SIZE < NumberPages

C38_TornDown(i) ==
    /\ irps[i].pc \in {"completing", "done"}
    /\ irps[i].by \in {"Revoke", "Unmap", "Cancel"}

\* C38: every grant or map context that is parked with the notify-offset
\* flag has NotifyOffset < NumberPages * PAGE_SIZE; the teardown of a context
\* with the flag zeroes one byte, at NotifyOffset, inside the buffer of
\* NumberPages pages and while the buffer is allocated or mapped; the
\* teardown of a context without the flag writes no byte.
C38_OffsetInsideBuffer ==
    \A i \in Irps :
        /\ (InQueue(i) /\ HasFlag(irps[i].Flags, XENIFACE_GNTTAB_USE_NOTIFY_OFFSET))
               => C38_InBuffer(irps[i].NotifyOffset, irps[i].NumberPages)
        /\ \A n \in C38_OffsetWrites(i) :
               /\ HasFlag(irps[i].Flags, XENIFACE_GNTTAB_USE_NOTIFY_OFFSET)
               /\ irps[i].log[n][2] = irps[i].NotifyOffset
               /\ C38_InBuffer(irps[i].log[n][2], irps[i].NumberPages)
               /\ Live(SubSeq(irps[i].log, 1, n), "KernelVa") = 1
        /\ C38_TornDown(i) =>
               Cardinality(C38_OffsetWrites(i)) =
                   (IF HasFlag(irps[i].Flags, XENIFACE_GNTTAB_USE_NOTIFY_OFFSET) THEN 1 ELSE 0)

\* A grant of one page with the flag and NotifyOffset PAGE_SIZE - 1, the last
\* byte of its buffer, was parked and revoked; the byte was zeroed.
C38_Witness ==
    \E i \in Irps :
        /\ C38_TornDown(i) /\ irps[i].by = "Revoke"
        /\ irps[i].NumberPages = 1
        /\ irps[i].NotifyOffset = PAGE_SIZE - 1
        /\ \E n \in C38_OffsetWrites(i) : irps[i].log[n][2] = PAGE_SIZE - 1

\* A map without the flag was parked and torn down by cancellation; no byte
\* was written.
C38_WitnessNoFlag ==
    \E i \in Irps :
        /\ C38_TornDown(i) /\ irps[i].by = "Cancel"
        /\ irps[i].Type = XENIFACE_CONTEXT_MAP
        /\ ~HasFlag(irps[i].Flags, XENIFACE_GNTTAB_USE_NOTIFY_OFFSET)
        /\ C38_OffsetWrites(i) = {}

====
